---- MODULE Spec2Model ----
(***************************************************************************)
(* Verification model of the trading bot's core:                            *)
(*   - bot/virtual_pnl.py : VirtualPositionManager (virtual ledger)         *)
(*   - bot/strategy.py    : indicator library, apply_filters and            *)
(*                          generate_signal (variants A and B)              *)
(*   - bot/main.py        : the run_once cycle: balance, notional limits,   *)
(*                          close orders, risk controls, order placement    *)
(*   - bot/trader.py      : OKXTrader order sizing                          *)
(*                                                                          *)
(* Python floats are modelled as exact rationals <<n, d>> (d > 0, reduced). *)
(* Optional[T] is modelled as a sequence: None == <<>>, a value x == <<x>>. *)
(***************************************************************************)
EXTENDS Integers, Sequences, FiniteSets, TLC

VARIABLES
    positions,   \* VirtualPositionManager.positions : set of VirtualPosition, keyed by symbol
    log,         \* rows appended to logs/virtual_trades_<env>.csv by _log_closed_trade
    ret,         \* value returned by the last on_order_filled call
    fills,       \* history: every on_order_filled call made so far (req, fill_price)
    current,     \* positions.get(symbol) as read by the last on_order_filled call
    raw_signal,  \* apply_filters argument
    closes,      \* apply_filters argument: current-timeframe closes, oldest first
    htf_closes,  \* apply_filters argument: higher-timeframe closes, or None
    cfg_filters, \* apply_filters argument: the "filters" section of the configuration
    debug_info,  \* apply_filters argument: the diagnostic map, updated in place
    final_signal, \* apply_filters local
    stage,       \* number of filter stages of apply_filters already run (7 = returned)
    result,      \* value returned by apply_filters
    klines,      \* generate_signal argument: candle rows [ts, open, high, low, close, ...]
    htf_klines,  \* generate_signal argument: higher-timeframe candle rows, or None
    config,      \* generate_signal argument cfg: the configuration (logic and filters sections)
    signal,      \* outcome of the generate_signal call: None while pending
    env,         \* run_once: Env.TEST or Env.LIVE
    pc,          \* run_once: the step the cycle is at
    tickers,     \* the exchange: fetch_ticker(symbol)["last"], None when the fetch fails
    markets,     \* the exchange: fut_ex.market(symbol) contract size, None when the lookup fails
    sanity_ok,   \* run_once: result of _run_live_sanity_checks, None when not run
    balance_failed, \* history: fetch_balance raised inside _fetch_usdt_balance
    total_usdt,  \* run_once local
    free_usdt,   \* run_once local
    max_spot_notional, \* run_once local
    max_fut_notional,  \* run_once local
    fut_positions, \* what fut_ex.fetch_positions returned to _generate_futures_close_orders
    close_orders, \* run_once local
    open_orders, \* run_once local
    all_orders,  \* run_once local: the batch handed to _apply_risk_controls
    orders,      \* run_once local: the batch _apply_risk_controls returned
    placed,      \* history: the orders handed to trader.place_order, in order
    sizing,      \* inputs of the OKXTrader.open_long / open_short call, None when idle
    sized,       \* outcome of the open_long / open_short call: None while pending
    rsi_args,    \* arguments (series, period) of the rsi call, None when idle
    rsi_ret,     \* list returned by the rsi call: None while pending
    ohlc_args,   \* argument klines of the extract_ohlc call, None when idle
    ohlc_ret     \* the four lists returned by the extract_ohlc call: None while pending

ledgerVars == <<positions, log, ret, fills, current>>

filterInputs == <<raw_signal, closes, htf_closes, cfg_filters>>

filterVars == <<raw_signal, closes, htf_closes, cfg_filters, debug_info, final_signal, stage, result>>

signalVars == <<klines, htf_klines, config, signal>>

runVars == <<env, pc, tickers, markets, sanity_ok, balance_failed, total_usdt, free_usdt, max_spot_notional, max_fut_notional, fut_positions, close_orders, open_orders, all_orders, orders, placed>>

sizingVars == <<sizing, sized>>

indicatorVars == <<rsi_args, rsi_ret, ohlc_args, ohlc_ret>>

\* the state of the other components, left alone by each component's actions
ledgerRest == <<filterVars, signalVars, runVars, sizingVars, indicatorVars>>

filtersRest == <<ledgerVars, signalVars, runVars, sizingVars, indicatorVars>>

signalRest == <<ledgerVars, filterVars, runVars, sizingVars, indicatorVars>>

runRest == <<ledgerVars, filterVars, signalVars, sizingVars, indicatorVars>>

sizingRest == <<ledgerVars, filterVars, signalVars, runVars, indicatorVars>>

indicatorRest == <<ledgerVars, filterVars, signalVars, runVars, sizingVars>>

vars == <<positions, log, ret, fills, current, raw_signal, closes, htf_closes, cfg_filters, debug_info, final_signal, stage, result, klines, htf_klines, config, signal, env, pc, tickers, markets, sanity_ok, balance_failed, total_usdt, free_usdt, max_spot_notional, max_fut_notional, fut_positions, close_orders, open_orders, all_orders, orders, placed, sizing, sized, rsi_args, rsi_ret, ohlc_args, ohlc_ret>>

----------------------------------------------------------------------------
(* Bounds *)

\* number of on_order_filled calls explored
MaxFills == 3

\* longest close series handed to apply_filters
MaxLen == 4

----------------------------------------------------------------------------
(* Optional values *)

None == <<>>

Some(x) == <<x>>

----------------------------------------------------------------------------
(* Exact rational arithmetic standing in for Python float arithmetic *)

Abs(i) == IF i < 0 THEN -i ELSE i

RECURSIVE GCD(_, _)
GCD(a, b) == IF b = 0 THEN a ELSE GCD(b, a % b)

Norm(n, d) ==
    LET s == IF d < 0 THEN -1 ELSE 1
        g == GCD(Abs(n), Abs(d))
    IN  <<(s * n) \div g, (s * d) \div g>>

R(i) == <<i, 1>>

\* sums and differences over the least common denominator, products and
\* quotients with cross-cancellation: the values of the plain formulas, with
\* intermediate results kept small
RAdd(a, b) ==
    IF a[1] = 0 THEN b
    ELSE IF b[1] = 0 THEN a
    ELSE LET g == GCD(a[2], b[2])
         IN  Norm(a[1] * (b[2] \div g) + b[1] * (a[2] \div g), (a[2] \div g) * b[2])

RSub(a, b) ==
    IF b[1] = 0 THEN a
    ELSE IF a[1] = 0 THEN <<-b[1], b[2]>>
    ELSE LET g == GCD(a[2], b[2])
         IN  Norm(a[1] * (b[2] \div g) - b[1] * (a[2] \div g), (a[2] \div g) * b[2])

RMul(a, b) ==
    IF a[1] = 0 THEN a
    ELSE IF b[1] = 0 THEN b
    ELSE LET g1 == GCD(Abs(a[1]), b[2])
             g2 == GCD(Abs(b[1]), a[2])
         IN  Norm((a[1] \div g1) * (b[1] \div g2), (a[2] \div g2) * (b[2] \div g1))

RDiv(a, b) ==
    IF a[1] = 0 /\ b[1] # 0 THEN a
    ELSE LET g1 == GCD(Abs(a[1]), Abs(b[1]))
             g2 == GCD(a[2], b[2])
             h1 == IF g1 = 0 THEN 1 ELSE g1
         IN  Norm((a[1] \div h1) * (b[2] \div g2), (a[2] \div g2) * (b[1] \div h1))

\* sign of a - b for rationals with positive denominators, by comparing integer
\* parts and then the reciprocals of the fractional parts
RECURSIVE RCmp(_, _)
RCmp(a, b) ==
    LET qa == a[1] \div a[2]
        qb == b[1] \div b[2]
        ra == a[1] - qa * a[2]
        rb == b[1] - qb * b[2]
    IN  IF qa = qb /\ ra # 0 /\ rb # 0 THEN RCmp(<<b[2], rb>>, <<a[2], ra>>)
        ELSE IF qa # qb THEN (IF qa < qb THEN -1 ELSE 1)
        ELSE IF ra = rb THEN 0
        ELSE IF ra = 0 THEN -1
        ELSE 1

RLt(a, b) == RCmp(a, b) < 0

RLe(a, b) == RCmp(a, b) <= 0

RAbs(a) == <<Abs(a[1]), a[2]>>

----------------------------------------------------------------------------
(* bot/trader.py data types *)

Symbols == {"BTC", "ETH"}

LONG == "long"

SHORT == "short"

PositionSide == {LONG, SHORT}

NoSide == "none"

\* order quantities (OrderRequest.amount > 0) and fill prices, in lots and ticks
Amounts == {1, 2}

Prices == {1, 2}

\* OrderRequest.reason: free text, here the ordinal of the order it explains
Reasons == 1..MaxFills

\* OrderRequest, restricted to the fields on_order_filled reads
OrderRequest ==
    [symbol : Symbols, position_side : PositionSide \cup {NoSide},
     amount : Amounts, reason : Reasons]

----------------------------------------------------------------------------
(* bot/virtual_pnl.py *)

\* _now_ts(): the wall clock, advancing by one tick per call
now_ts == Len(fills) + 1

VirtualPosition(symbol, side, qty, entry_price, entry_time, reason_open) ==
    [symbol |-> symbol, side |-> side, qty |-> qty, entry_price |-> entry_price,
     entry_time |-> entry_time, reason_open |-> reason_open]

ClosedTrade(symbol, side, qty, entry_price, exit_price, entry_time, exit_time, pnl, reason_open, reason_close) ==
    [symbol |-> symbol, side |-> side, qty |-> qty, entry_price |-> entry_price,
     exit_price |-> exit_price, entry_time |-> entry_time, exit_time |-> exit_time,
     pnl |-> pnl, reason_open |-> reason_open, reason_close |-> reason_close]

\* self.positions.get(symbol)
DictGet(d, symbol) ==
    LET m == {p \in d : p.symbol = symbol}
    IN  IF m = {} THEN None ELSE Some(CHOOSE p \in m : TRUE)

DictSetKeepOld(d, symbol, v) == d \cup {v}

\* self.positions[symbol] = v
DictSet(d, symbol, v) == {p \in d : p.symbol # symbol} \cup {v}

calc_pnl_ignores_side(side, entry_price, exit_price, qty) ==
    RMul(RSub(exit_price, entry_price), R(qty))

calc_pnl_swapped(side, entry_price, exit_price, qty) ==
    IF side = LONG
    THEN RMul(RSub(entry_price, exit_price), R(qty))
    ELSE RMul(RSub(exit_price, entry_price), R(qty))

\* VirtualPositionManager._calc_pnl
calc_pnl(side, entry_price, exit_price, qty) ==
    IF side = LONG
    THEN RMul(RSub(exit_price, entry_price), R(qty))
    ELSE RMul(RSub(entry_price, exit_price), R(qty))

HasNoSideNever(req) == FALSE

\* the early return: if not req.position_side
HasNoSide(req) == req.position_side = NoSide

SameSideAlways(cur, side) == TRUE

\* step 2 test: current.side == side
SameSide(cur, side) == cur.side = side

OpenedSizeZero(req, fill_price, ts) ==
    VirtualPosition(req.symbol, req.position_side, 0,
                    R(fill_price), ts, req.reason)

\* steps 1 and 3: VirtualPosition(symbol, side, qty, fill_price, ts, req.reason or "")
Opened(req, fill_price, ts) ==
    VirtualPosition(req.symbol, req.position_side, req.amount,
                    R(fill_price), ts, req.reason)

AveragedLastPrice(cur, qty, fill_price) ==
    LET new_qty == cur.qty + qty
    IN  IF new_qty <= 0 THEN cur
        ELSE [cur EXCEPT !.entry_price = R(fill_price), !.qty = new_qty]

\* step 2: same-side add, weighted average entry price (in-place update of current)
Averaged(cur, qty, fill_price) ==
    LET new_qty == cur.qty + qty
    IN  IF new_qty <= 0 THEN cur
        ELSE [cur EXCEPT
                !.entry_price = RDiv(RAdd(RMul(cur.entry_price, R(cur.qty)),
                                          RMul(R(fill_price), R(qty))),
                                     R(new_qty)),
                !.qty = new_qty]

ClosedIncomingQty(cur, req, fill_price, ts) ==
    ClosedTrade(req.symbol, cur.side, req.amount, cur.entry_price, R(fill_price),
                cur.entry_time, ts,
                calc_pnl(cur.side, cur.entry_price, R(fill_price), req.amount),
                cur.reason_open, req.reason)

\* step 3: the ClosedTrade realised against the existing position
Closed(cur, req, fill_price, ts) ==
    ClosedTrade(req.symbol, cur.side, cur.qty, cur.entry_price, R(fill_price),
                cur.entry_time, ts,
                calc_pnl(cur.side, cur.entry_price, R(fill_price), cur.qty),
                cur.reason_open, req.reason)

\* VirtualPositionManager.__init__
LedgerNew ==
    /\ positions = {}
    /\ log = <<>>
    /\ ret = None
    /\ fills = <<>>
    /\ current = None

\* no apply_filters call in progress
FiltersIdle ==
    /\ raw_signal = 0
    /\ closes = <<>>
    /\ htf_closes = None
    /\ cfg_filters = <<>>
    /\ debug_info = <<>>
    /\ final_signal = 0
    /\ stage = 0
    /\ result = None

\* no generate_signal call in progress
SignalIdle ==
    /\ klines = <<>>
    /\ htf_klines = None
    /\ config = <<>>
    /\ signal = None

\* no run cycle in progress
RunIdle ==
    /\ env = "test"
    /\ pc = "idle"
    /\ tickers = <<>>
    /\ markets = <<>>
    /\ sanity_ok = None
    /\ balance_failed = FALSE
    /\ total_usdt = R(0)
    /\ free_usdt = R(0)
    /\ max_spot_notional = R(0)
    /\ max_fut_notional = R(0)
    /\ fut_positions = None
    /\ close_orders = <<>>
    /\ open_orders = <<>>
    /\ all_orders = <<>>
    /\ orders = <<>>
    /\ placed = <<>>

\* no sizing call in progress
SizingIdle ==
    /\ sizing = None
    /\ sized = None

\* no indicator call in progress
IndicatorIdle ==
    /\ rsi_args = None
    /\ rsi_ret = None
    /\ ohlc_args = None
    /\ ohlc_ret = None

LedgerInit == LedgerNew /\ FiltersIdle /\ SignalIdle /\ RunIdle /\ SizingIdle /\ IndicatorIdle

\* VirtualPositionManager.on_order_filled(req, fill_price)
on_order_filled(req, fill_price) ==
    LET cur == DictGet(positions, req.symbol)
        ts  == now_ts
    IN  /\ Len(fills) < MaxFills
        /\ UNCHANGED ledgerRest
        /\ fills' = Append(fills, [req |-> req, fill_price |-> fill_price])
        /\ current' = cur
        /\ IF HasNoSide(req)
           THEN /\ ret' = None
                /\ UNCHANGED <<positions, log>>
           ELSE IF cur = None
           THEN /\ positions' = DictSet(positions, req.symbol,
                                        Opened(req, fill_price, ts))
                /\ ret' = None
                /\ UNCHANGED log
           ELSE IF SameSide(cur[1], req.position_side)
           THEN /\ positions' = DictSet(positions, req.symbol,
                                        Averaged(cur[1], req.amount, fill_price))
                /\ ret' = None
                /\ UNCHANGED log
           ELSE LET closed == Closed(cur[1], req, fill_price, ts)
                IN  /\ log' = Append(log, closed)
                    /\ positions' = DictSet(positions, req.symbol,
                                            Opened(req, fill_price, ts))
                    /\ ret' = Some(closed)

\* the caller feeds the next confirmed order and its fill price
Fill ==
    \E req \in OrderRequest, fill_price \in Prices :
        /\ req.reason = Len(fills) + 1
        /\ on_order_filled(req, fill_price)

LedgerNext == Fill

SpecLedger == LedgerInit /\ [][LedgerNext]_vars

----------------------------------------------------------------------------
(* bot/strategy.py: indicator library *)

\* sum of the first n entries of a sequence of rationals
RECURSIVE RSum(_, _)
RSum(xs, n) == IF n = 0 THEN R(0) ELSE RAdd(RSum(xs, n - 1), xs[n])

\* ema_vals after the first n prices: seeded with series[1], each later value
\* appended as price * k + ema_prev * (1 - k)
RECURSIVE EmaList(_, _, _)
EmaList(series, k, n) ==
    IF n = 1 THEN <<R(series[1])>>
    ELSE LET ema_vals == EmaList(series, k, n - 1)
         IN  Append(ema_vals, RAdd(RMul(R(series[n]), k), RMul(ema_vals[n - 1], RSub(R(1), k))))

\* ema value at (1-based) position i, smoothing factor k
EmaAt(series, k, i) == EmaList(series, k, i)[i]

\* ema(series, period)
ema(series, period) ==
    IF series = <<>> \/ period <= 0 THEN <<>>
    ELSE EmaList(series, Norm(2, period + 1), Len(series))

\* the Wilder running averages after deltas period..j, seeded with the mean of
\* the first period values
RECURSIVE WilderList(_, _, _)
WilderList(vals, period, j) ==
    IF j = period THEN <<RDiv(RSum(vals, period), R(period))>>
    ELSE LET avgs == WilderList(vals, period, j - 1)
         IN  Append(avgs, RDiv(RAdd(RMul(avgs[Len(avgs)], R(period - 1)), vals[j]), R(period)))

\* Wilder running average after delta j (j >= period)
WilderAt(vals, period, j) == WilderList(vals, period, j)[j - period + 1]

\* 100 if avg_loss == 0 else 100 - 100 / (1 + avg_gain / avg_loss)
RsiValue(avg_gain, avg_loss) ==
    IF avg_loss = R(0) THEN R(100)
    ELSE RSub(R(100), RDiv(R(100), RAdd(R(1), RDiv(avg_gain, avg_loss))))

rsi_seed_early(series, period) ==
    LET n == Len(series)
    IN  IF n = 0 \/ period <= 0 \/ n < period + 1 THEN <<>>
        ELSE LET gains  == [i \in 1..(n - 1) |->
                              R(IF series[i + 1] - series[i] > 0 THEN series[i + 1] - series[i] ELSE 0)]
                 losses == [i \in 1..(n - 1) |->
                              R(IF series[i] - series[i + 1] > 0 THEN series[i] - series[i + 1] ELSE 0)]
             IN  [i \in 1..n |->
                    IF i < period THEN None
                    ELSE Some(RsiValue(WilderAt(gains, period, (IF i > period THEN i - 1 ELSE period)),
                                       WilderAt(losses, period, (IF i > period THEN i - 1 ELSE period))))]

\* rsi(series, period): list of Optional[float]
rsi(series, period) ==
    LET n == Len(series)
    IN  IF n = 0 \/ period <= 0 \/ n < period + 1 THEN <<>>
        ELSE LET gains  == [i \in 1..(n - 1) |->
                              R(IF series[i + 1] - series[i] > 0 THEN series[i + 1] - series[i] ELSE 0)]
                 losses == [i \in 1..(n - 1) |->
                              R(IF series[i] - series[i + 1] > 0 THEN series[i] - series[i + 1] ELSE 0)]
             IN  [i \in 1..n |->
                    IF i <= period THEN None
                    ELSE Some(RsiValue(WilderAt(gains, period, i - 1),
                                       WilderAt(losses, period, i - 1)))]

\* atr_from_closes(series, period): Optional[float]
atr_from_closes(series, period) ==
    LET n == Len(series)
    IN  IF n < period + 1 \/ period <= 0 THEN None
        ELSE LET recent_trs == [i \in 1..period |->
                                  R(Abs(series[n - period + i] - series[n - period + i - 1]))]
             IN  Some(RDiv(RSum(recent_trs, period), R(period)))

recent_high_low_with_current(series, lookback) ==
    LET n == Len(series)
    IN  IF n <= lookback THEN <<None, None>>
        ELSE LET window == {series[i] : i \in (n - lookback)..n}
             IN  <<Some(CHOOSE h \in window : \A x \in window : x <= h),
                   Some(CHOOSE l \in window : \A x \in window : l <= x)>>

\* recent_high_low(series, lookback): (Optional high, Optional low) of series[-1-lookback:-1]
recent_high_low(series, lookback) ==
    LET n == Len(series)
    IN  IF n <= lookback THEN <<None, None>>
        ELSE LET window == {series[i] : i \in (n - lookback)..(n - 1)}
             IN  <<Some(CHOOSE h \in window : \A x \in window : x <= h),
                   Some(CHOOSE l \in window : \A x \in window : l <= x)>>

\* detect_htf_trend(htf_closes, ma_period)
detect_htf_trend(htf, ma_period) ==
    IF htf = <<>> \/ Len(htf) < ma_period THEN "unknown"
    ELSE LET last_close == R(htf[Len(htf)])
             last_ma    == ema(htf, ma_period)[Len(htf)]
         IN  IF RLt(last_ma, last_close) THEN "up"
             ELSE IF RLt(last_close, last_ma) THEN "down"
             ELSE "flat"

\* detect_crash(closes, lookback, threshold)
detect_crash_strict(cl, lookback, threshold) ==
    IF Len(cl) < lookback + 1 \/ lookback <= 0 THEN FALSE
    ELSE LET last == cl[Len(cl)]
             prev == cl[Len(cl) - lookback]
         IN  RLt(RDiv(R(last - prev), R(prev)), threshold)

detect_crash(cl, lookback, threshold) ==
    IF Len(cl) < lookback + 1 \/ lookback <= 0 THEN FALSE
    ELSE LET last == cl[Len(cl)]
             prev == cl[Len(cl) - lookback]
         IN  RLe(RDiv(R(last - prev), R(prev)), threshold)

----------------------------------------------------------------------------
(* bot/strategy.py: apply_filters *)

\* dict.get(key, default)
Get(d, key, default) == IF key \in DOMAIN d THEN d[key] ELSE default

\* d[key] = value
Put(d, key, value) == (key :> value) @@ d

\* the diagnostic keys that record a veto
BlockedKeys ==
    {"blocked_by_htf_trend", "blocked_by_rsi", "blocked_by_crash",
     "blocked_by_breakout", "blocked_by_atr", "blocked_by_slope"}

\* the running state of apply_filters
FilterState(sig, dbg) == [sig |-> sig, dbg |-> dbg]

\* the signal is forced to 0 and the reason recorded under key
Veto(dbg, key, reason) == FilterState(0, Put(dbg, key, reason))

\* 1) higher-timeframe trend filter
HtfTrendFilter(st, cl, htf, cfg) ==
    LET htf_period == Get(cfg, "htf_ma_period", 50)
        htf_trend  == IF htf # None THEN detect_htf_trend(htf, htf_period) ELSE "unknown"
        dbg        == Put(st.dbg, "htf_trend", htf_trend)
    IN  IF st.sig = 1 /\ htf_trend = "down"
        THEN Veto(dbg, "blocked_by_htf_trend", "long_blocked_in_downtrend")
        ELSE IF st.sig = -1 /\ htf_trend = "up"
        THEN Veto(dbg, "blocked_by_htf_trend", "short_blocked_in_uptrend")
        ELSE FilterState(st.sig, dbg)

RsiFilterLongOnly(st, cl, htf, cfg) ==
    LET rsi_vals        == rsi(cl, Get(cfg, "rsi_period", 14))
        last_rsi        == IF rsi_vals # <<>> THEN rsi_vals[Len(rsi_vals)] ELSE None
        dbg             == Put(st.dbg, "rsi", last_rsi)
        long_overbought == Get(cfg, "rsi_long_overbought", R(80))
    IN  IF last_rsi # None /\ st.sig = 1 /\ RLe(long_overbought, last_rsi[1])
        THEN Veto(dbg, "blocked_by_rsi", "long_blocked_overbought")
        ELSE FilterState(st.sig, dbg)

\* 2) RSI filter
RsiFilter(st, cl, htf, cfg) ==
    LET rsi_period      == Get(cfg, "rsi_period", 14)
        rsi_vals        == rsi(cl, rsi_period)
        last_rsi        == IF rsi_vals # <<>> THEN rsi_vals[Len(rsi_vals)] ELSE None
        dbg             == Put(st.dbg, "rsi", last_rsi)
        long_overbought == Get(cfg, "rsi_long_overbought", R(80))
        short_oversold  == Get(cfg, "rsi_short_oversold", R(20))
    IN  IF last_rsi # None /\ st.sig = 1 /\ RLe(long_overbought, last_rsi[1])
        THEN Veto(dbg, "blocked_by_rsi", "long_blocked_overbought")
        ELSE IF last_rsi # None /\ st.sig = -1 /\ RLe(last_rsi[1], short_oversold)
        THEN Veto(dbg, "blocked_by_rsi", "short_blocked_oversold")
        ELSE FilterState(st.sig, dbg)

CrashFilterSilent(st, cl, htf, cfg) ==
    LET crashed == detect_crash(cl, Get(cfg, "crash_lookback", 6),
                                Get(cfg, "crash_threshold", Norm(-7, 100)))
        dbg     == Put(st.dbg, "crashed", crashed)
    IN  IF crashed /\ st.sig = 1 THEN FilterState(0, dbg) ELSE FilterState(st.sig, dbg)

\* 3) crash filter
CrashFilter(st, cl, htf, cfg) ==
    LET crash_lookback  == Get(cfg, "crash_lookback", 6)
        crash_threshold == Get(cfg, "crash_threshold", Norm(-7, 100))
        crashed         == detect_crash(cl, crash_lookback, crash_threshold)
        dbg             == Put(st.dbg, "crashed", crashed)
    IN  IF crashed /\ st.sig = 1
        THEN Veto(dbg, "blocked_by_crash", "long_blocked_after_crash")
        ELSE FilterState(st.sig, dbg)

\* 4) breakout confirmation filter
BreakoutFilter(st, cl, htf, cfg) ==
    LET breakout_lookback == Get(cfg, "breakout_lookback", 5)
        last_close        == cl[Len(cl)]
    IN  IF st.sig # 0 /\ breakout_lookback > 0
        THEN LET hl          == recent_high_low(cl, breakout_lookback)
                 recent_high == hl[1]
                 recent_low  == hl[2]
                 dbg         == Put(Put(st.dbg, "recent_high", recent_high),
                                    "recent_low", recent_low)
             IN  IF recent_high # None /\ recent_low # None
                 THEN IF st.sig = 1 /\ ~(last_close > recent_high[1])
                      THEN Veto(dbg, "blocked_by_breakout", "no_long_breakout")
                      ELSE IF st.sig = -1 /\ ~(last_close < recent_low[1])
                      THEN Veto(dbg, "blocked_by_breakout", "no_short_breakout")
                      ELSE FilterState(st.sig, dbg)
                 ELSE FilterState(st.sig, dbg)
        ELSE st

\* 5) ATR volatility filter
AtrFilter(st, cl, htf, cfg) ==
    LET atr_period  == Get(cfg, "atr_period", 14)
        atr_min_pct == Get(cfg, "atr_min_pct", Norm(2, 1000))
        atr_val     == atr_from_closes(cl, atr_period)
        atr_pct     == IF atr_val # None /\ cl[Len(cl)] # 0
                       THEN Some(RDiv(atr_val[1], R(cl[Len(cl)])))
                       ELSE None
        dbg         == Put(Put(st.dbg, "atr", atr_val), "atr_pct", atr_pct)
    IN  IF atr_pct # None /\ RLt(atr_pct[1], atr_min_pct)
        THEN Veto(dbg, "blocked_by_atr", "low_vol")
        ELSE FilterState(st.sig, dbg)

SlopeFilterNoFlatVeto(st, cl, htf, cfg) ==
    LET fast_len       == Get(st.dbg, "fast", Get(cfg, "fast_len_for_slope", 12))
        slope_lookback == Get(cfg, "slope_lookback", 3)
        fast_ema_vals  == ema(cl, fast_len)
        n              == Len(fast_ema_vals)
        fast_slope     == IF n > slope_lookback /\ fast_ema_vals[n - slope_lookback] # R(0)
                          THEN Some(RDiv(RSub(fast_ema_vals[n], fast_ema_vals[n - slope_lookback]),
                                         fast_ema_vals[n - slope_lookback]))
                          ELSE None
        dbg            == Put(st.dbg, "fast_slope", fast_slope)
    IN  IF fast_slope = None THEN FilterState(st.sig, dbg)
        ELSE IF st.sig = 1 /\ RLt(fast_slope[1], R(0))
        THEN Veto(dbg, "blocked_by_slope", "long_blocked_by_down_slope")
        ELSE IF st.sig = -1 /\ RLt(R(0), fast_slope[1])
        THEN Veto(dbg, "blocked_by_slope", "short_blocked_by_up_slope")
        ELSE FilterState(st.sig, dbg)

SlopeFilterFollowsSlope(st, cl, htf, cfg) ==
    LET fast_len       == Get(st.dbg, "fast", Get(cfg, "fast_len_for_slope", 12))
        slope_lookback == Get(cfg, "slope_lookback", 3)
        slope_min_abs  == Get(cfg, "slope_min_abs", Norm(5, 10000))
        fast_ema_vals  == ema(cl, fast_len)
        n              == Len(fast_ema_vals)
        fast_slope     == IF n > slope_lookback /\ fast_ema_vals[n - slope_lookback] # R(0)
                          THEN Some(RDiv(RSub(fast_ema_vals[n], fast_ema_vals[n - slope_lookback]),
                                         fast_ema_vals[n - slope_lookback]))
                          ELSE None
        dbg            == Put(st.dbg, "fast_slope", fast_slope)
    IN  IF fast_slope = None THEN FilterState(st.sig, dbg)
        ELSE IF RLt(RAbs(fast_slope[1]), slope_min_abs)
        THEN Veto(dbg, "blocked_by_slope", "flat_ma")
        ELSE IF RLt(fast_slope[1], R(0)) THEN FilterState(-1, dbg)
        ELSE FilterState(1, dbg)

\* 6) EMA slope filter
SlopeFilter(st, cl, htf, cfg) ==
    LET fast_len       == Get(st.dbg, "fast", Get(cfg, "fast_len_for_slope", 12))
        slope_lookback == Get(cfg, "slope_lookback", 3)
        slope_min_abs  == Get(cfg, "slope_min_abs", Norm(5, 10000))
        fast_ema_vals  == ema(cl, fast_len)
        n              == Len(fast_ema_vals)
        fast_slope     == IF n > slope_lookback /\ fast_ema_vals[n - slope_lookback] # R(0)
                          THEN Some(RDiv(RSub(fast_ema_vals[n], fast_ema_vals[n - slope_lookback]),
                                         fast_ema_vals[n - slope_lookback]))
                          ELSE None
        dbg            == Put(st.dbg, "fast_slope", fast_slope)
    IN  IF fast_slope = None THEN FilterState(st.sig, dbg)
        ELSE IF RLt(RAbs(fast_slope[1]), slope_min_abs)
        THEN Veto(dbg, "blocked_by_slope", "flat_ma")
        ELSE IF st.sig = 1 /\ RLt(fast_slope[1], R(0))
        THEN Veto(dbg, "blocked_by_slope", "long_blocked_by_down_slope")
        ELSE IF st.sig = -1 /\ RLt(R(0), fast_slope[1])
        THEN Veto(dbg, "blocked_by_slope", "short_blocked_by_up_slope")
        ELSE FilterState(st.sig, dbg)

\* the k-th stage of apply_filters, in source order
FilterStage(k, st, cl, htf, cfg) ==
    CASE k = 1 -> HtfTrendFilter(st, cl, htf, cfg)
      [] k = 2 -> RsiFilter(st, cl, htf, cfg)
      [] k = 3 -> CrashFilter(st, cl, htf, cfg)
      [] k = 4 -> BreakoutFilter(st, cl, htf, cfg)
      [] k = 5 -> AtrFilter(st, cl, htf, cfg)
      [] k = 6 -> SlopeFilter(st, cl, htf, cfg)

\* the states of apply_filters on entry and after each of its first k stages
RECURSIVE FilterStates(_, _, _, _, _, _)
FilterStates(k, raw, cl, htf, cfg, dbg) ==
    IF k = 0 THEN <<FilterState(raw, dbg)>>
    ELSE LET sts == FilterStates(k - 1, raw, cl, htf, cfg, dbg)
         IN  Append(sts, FilterStage(k, sts[k], cl, htf, cfg))

\* apply_filters after its first k stages
FiltersUpTo(k, raw, cl, htf, cfg, dbg) == FilterStates(k, raw, cl, htf, cfg, dbg)[k + 1]

\* apply_filters(raw_signal, closes, htf_closes, cfg_filters, debug_info)
apply_filters(raw, cl, htf, cfg, dbg) == FiltersUpTo(6, raw, cl, htf, cfg, dbg)

----------------------------------------------------------------------------
(* Inputs of apply_filters *)

\* close prices, in ticks (prices are positive)
CloseVals == {1, 2, 3}

RECURSIVE SeqsUpTo(_, _)
SeqsUpTo(S, n) ==
    IF n = 0 THEN {<<>>}
    ELSE LET shorter == SeqsUpTo(S, n - 1)
         IN  shorter \cup {Append(q, x) : q \in {r \in shorter : Len(r) = n - 1}, x \in S}

\* non-empty close series (generate_signal hands over at least 10 closes)
CloseSeries == SeqsUpTo(CloseVals, MaxLen) \ {<<>>}

\* higher-timeframe closes: None or empty (both falsy), or a series of up to two closes
HtfSeries == {None} \cup SeqsUpTo({1, 2}, 2)

\* every period and lookback short enough to act on the series explored
ShortPeriods ==
    ("htf_ma_period" :> 2) @@ ("rsi_period" :> 2) @@ ("crash_lookback" :> 2) @@
    ("breakout_lookback" :> 2) @@ ("atr_period" :> 2) @@
    ("fast_len_for_slope" :> 2) @@ ("slope_lookback" :> 1)

\* the "filters" configurations explored: all defaults; short periods with the
\* default thresholds; short periods with breakout off and thresholds that let
\* a moving market through
Configs ==
    { <<>>,
      ShortPeriods,
      ("breakout_lookback" :> 0) @@ ("rsi_long_overbought" :> R(101)) @@
          ("rsi_short_oversold" :> R(-1)) @@ ShortPeriods }

\* the diagnostic map on entry: empty, or carrying the "fast" length set by generate_signal
DebugInfos == { <<>>, ("fast" :> 3) }

\* two series that fall into their last bar, by 10% and by exactly 7% over four
\* bars, and the crash settings they are judged with
CrashExamples == { <<100, 101, 102, 103, 90>>, <<100, 101, 102, 103, 93>> }

CrashExampleConfig == ("crash_lookback" :> 4) @@ ("crash_threshold" :> Norm(-7, 100))

----------------------------------------------------------------------------
(* apply_filters as a process: one step per filter stage *)

FiltersInit ==
    /\ LedgerNew
    /\ SignalIdle
    /\ RunIdle
    /\ SizingIdle
    /\ IndicatorIdle
    /\ raw_signal \in {-1, 0, 1}
    /\ \/ closes \in CloseSeries /\ cfg_filters \in Configs
       \/ closes \in CrashExamples /\ cfg_filters = CrashExampleConfig
    /\ htf_closes \in HtfSeries
    /\ debug_info \in DebugInfos
    /\ final_signal = raw_signal
    /\ stage = 0
    /\ result = None

RunStage(k) ==
    /\ stage = k - 1
    /\ LET st == FilterStage(k, FilterState(final_signal, debug_info),
                             closes, htf_closes, cfg_filters)
       IN  /\ final_signal' = st.sig
           /\ debug_info' = st.dbg
    /\ stage' = k
    /\ UNCHANGED <<filterInputs, result, filtersRest>>

StageHtfTrend == RunStage(1)

StageRsi == RunStage(2)

StageCrash == RunStage(3)

StageBreakout == RunStage(4)

StageAtr == RunStage(5)

StageSlope == RunStage(6)

\* return final_signal
Return ==
    /\ stage = 6
    /\ result' = Some(final_signal)
    /\ stage' = 7
    /\ UNCHANGED <<filterInputs, final_signal, debug_info, filtersRest>>

FiltersNext ==
    \/ StageHtfTrend
    \/ StageRsi
    \/ StageCrash
    \/ StageBreakout
    \/ StageAtr
    \/ StageSlope
    \/ Return

SpecFilters == FiltersInit /\ [][FiltersNext]_vars

----------------------------------------------------------------------------
(* bot/strategy.py : generate_signal, variants A (moving-average direction  *)
(* plus filters) and B (pullback re-entry)                                  *)

\* outcome of a call: a returned value, or an exception escaping the call
Ret(v) == [raised |-> FALSE, value |-> v]

Raise == [raised |-> TRUE, value |-> 0]

\* a candle row [ts, open, high, low, close, ...]; a field float() cannot
\* convert (missing, None, not a number) is None
Row(o, h, l, c) == [o |-> o, h |-> h, l |-> l, c |-> c]

\* the float() values of field f of the given rows
FieldOf(rows, f) == [i \in 1..Len(rows) |-> rows[i][f][1]]

\* extract_closes(klines): the closes of the rows whose close converts
extract_closes(kl) == FieldOf(SelectSeq(kl, LAMBDA k : k.c # None), "c")

\* extract_ohlc(klines): each list is appended in turn inside the try, so a
\* row contributes to a list when every field up to that one converts
extract_ohlc(kl) ==
    [opens  |-> FieldOf(SelectSeq(kl, LAMBDA k : k.o # None), "o"),
     highs  |-> FieldOf(SelectSeq(kl, LAMBDA k : k.o # None /\ k.h # None), "h"),
     lows   |-> FieldOf(SelectSeq(kl, LAMBDA k : k.o # None /\ k.h # None /\ k.l # None), "l"),
     closes |-> FieldOf(SelectSeq(kl, LAMBDA k : k.o # None /\ k.h # None /\ k.l # None /\ k.c # None), "c")]

\* pct_diff(a, b)
pct_diff(a, b) == IF b = R(0) THEN R(999) ELSE RDiv(RAbs(RSub(a, b)), RAbs(b))

\* series[-1] of an indicator list: IndexError on an empty list
Last(xs) == xs[Len(xs)]

Max(a, b) == IF a >= b THEN a ELSE b

\* str.upper() on the mode names in use
Upper(str) == CASE str = "a" -> "A" [] str = "b" -> "B" [] OTHER -> str

\* the guard of base_signal_from_ma with the history bound one candle shorter
BaseNotEnoughSlow(n, slow) == n < slow

\* the guard of base_signal_from_ma: if len(closes) < slow + 1: return 0
BaseNotEnough(n, slow) == n < slow + 1

\* base_signal_from_ma(closes, fast, slow, sig): the signal it returns
base_signal_from_ma(cl, fast, slow, sig) ==
    IF BaseNotEnough(Len(cl), slow) THEN Ret(0)
    ELSE LET fast_ema_vals == ema(cl, fast)
             slow_ema_vals == ema(cl, slow)
         IN  IF fast_ema_vals = <<>> \/ slow_ema_vals = <<>> THEN Raise
             ELSE LET fast_last == Last(fast_ema_vals)
                      slow_last == Last(slow_ema_vals)
                      diff      == RSub(fast_last, slow_last)
                      rel_diff  == IF slow_last # R(0) THEN RDiv(diff, slow_last) ELSE R(0)
                      flat_threshold == Norm(3, 10000)
                  IN  IF RLt(RAbs(rel_diff), flat_threshold) THEN Ret(0)
                      ELSE IF RLt(R(0), rel_diff) THEN Ret(1)
                      ELSE Ret(-1)

detect_trend_never_none(htf, fast, slow) ==
    IF Len(htf) < slow + 2 THEN Ret("none")
    ELSE IF ema(htf, fast) = <<>> \/ ema(htf, slow) = <<>> THEN Raise
    ELSE IF RLe(Last(ema(htf, slow)), Last(ema(htf, fast))) THEN Ret("bull")
    ELSE Ret("bear")

\* detect_trend_ma50_200(htf_closes, fast, slow): "bull" / "bear" / "none"
detect_trend_ma50_200(htf, fast, slow) ==
    IF Len(htf) < slow + 2 THEN Ret("none")
    ELSE IF ema(htf, fast) = <<>> \/ ema(htf, slow) = <<>> THEN Raise
    ELSE LET ema_fast == Last(ema(htf, fast))
             ema_slow == Last(ema(htf, slow))
             last     == R(Last(htf))
         IN  IF RLt(ema_slow, ema_fast) /\ RLt(ema_fast, last) THEN Ret("bull")
             ELSE IF RLt(ema_fast, ema_slow) /\ RLt(last, ema_fast) THEN Ret("bear")
             ELSE Ret("none")

\* the optional RSI and ATR vetoes of variant B, for direction dir
BOptionalFilters(dir, cl, b, filters_cfg) ==
    LET use_rsi_filter == Get(b, "use_rsi_filter", TRUE)
        use_atr_filter == Get(b, "use_atr_filter", TRUE)
        rsi_vals    == rsi(cl, Get(filters_cfg, "rsi_period", 14))
        last_rsi    == IF rsi_vals # <<>> THEN Last(rsi_vals) ELSE None
        rsi_blocked == /\ use_rsi_filter
                       /\ last_rsi # None
                       /\ IF dir = 1
                          THEN RLe(Get(filters_cfg, "rsi_long_overbought", R(80)), last_rsi[1])
                          ELSE RLe(last_rsi[1], Get(filters_cfg, "rsi_short_oversold", R(20)))
        atr_min_pct == Get(filters_cfg, "atr_min_pct", Norm(2, 1000))
        atr_val     == atr_from_closes(cl, Get(filters_cfg, "atr_period", 14))
        atr_pct     == IF atr_val # None /\ Last(cl) # 0
                       THEN Some(RDiv(atr_val[1], R(Last(cl)))) ELSE None
        atr_blocked == use_atr_filter /\ atr_pct # None /\ RLt(atr_pct[1], atr_min_pct)
    IN  IF rsi_blocked \/ atr_blocked THEN 0 ELSE dir

\* the history guard of variant B with the five candles of margin left out
BNotEnoughNoMargin(n, guard_ma, entry_ma2) == n < Max(guard_ma, entry_ma2)

\* the history guard of variant B: if len(closes) < max(guard_ma, entry_ma2) + 5
BNotEnough(n, guard_ma, entry_ma2) == n < Max(guard_ma, entry_ma2) + 5

\* generate_signal_b_pullback(symbol, klines, htf_klines, cfg, debug_info)
generate_signal_b_pullback(kl, htf, c) ==
    LET logic       == Get(c, "logic", <<>>)
        filters_cfg == Get(c, "filters", <<>>)
        b           == Get(logic, "B", <<>>)
        pull_near_pct     == Get(b, "pullback_near_pct", Norm(3, 1000))
        guard_break_pct   == Get(b, "guard_break_pct", R(0))
        require_structure == Get(b, "require_structure", TRUE)
        confirm_mode      == Get(b, "confirm_mode", "close")
        htf_fast  == Get(b, "htf_fast", 50)
        htf_slow  == Get(b, "htf_slow", 200)
        entry_ma1 == Get(b, "entry_ma1", 20)
        entry_ma2 == Get(b, "entry_ma2", 30)
        guard_ma  == Get(b, "guard_ma", 50)
        ohlc      == extract_ohlc(kl)
        opens     == ohlc.opens
        cl        == ohlc.closes
        htf_cl    == extract_closes(htf)
        trend     == detect_trend_ma50_200(htf_cl, htf_fast, htf_slow)
    IN  IF BNotEnough(Len(cl), guard_ma, entry_ma2) THEN Ret(0)
        ELSE IF trend.raised THEN Raise
        ELSE IF trend.value = "none" THEN Ret(0)
        ELSE IF ema(cl, entry_ma1) = <<>> \/ ema(cl, entry_ma2) = <<>> \/ ema(cl, guard_ma) = <<>>
                \/ Len(opens) < 2 \/ Len(cl) < 3
        THEN Raise
        ELSE LET ema20 == Last(ema(cl, entry_ma1))
                 ema30 == Last(ema(cl, entry_ma2))
                 ema50 == Last(ema(cl, guard_ma))
                 o_prev   == opens[Len(opens) - 1]
                 c_prev   == cl[Len(cl) - 1]
                 o_now    == Last(opens)
                 c_now    == Last(cl)
                 c_before == cl[Len(cl) - 2]
                 near_ma  == \/ RLe(pct_diff(R(c_prev), ema20), pull_near_pct)
                             \/ RLe(pct_diff(R(c_prev), ema30), pull_near_pct)
             IN  IF trend.value = "bull"
                 THEN LET guard_line   == RMul(ema50, RSub(R(1), guard_break_pct))
                          guard_ok     == RLe(guard_line, R(c_prev))
                          confirm_ok   == IF confirm_mode = "close" THEN c_now > o_now ELSE c_now > c_prev
                          structure_ok == IF require_structure THEN c_before > c_prev ELSE TRUE
                      IN  IF ~(near_ma /\ guard_ok /\ confirm_ok /\ structure_ok) THEN Ret(0)
                          ELSE Ret(BOptionalFilters(1, cl, b, filters_cfg))
                 ELSE LET guard_line   == RMul(ema50, RAdd(R(1), guard_break_pct))
                          guard_ok     == RLe(R(c_prev), guard_line)
                          confirm_ok   == IF confirm_mode = "close" THEN c_now < o_now ELSE c_now < c_prev
                          structure_ok == IF require_structure THEN c_before < c_prev ELSE TRUE
                      IN  IF ~(near_ma /\ guard_ok /\ confirm_ok /\ structure_ok) THEN Ret(0)
                          ELSE Ret(BOptionalFilters(-1, cl, b, filters_cfg))

\* mode = str(logic.get("mode", "A")).upper()
ModeOf(c) == Upper(Get(Get(c, "logic", <<>>), "mode", "A"))

\* the slow period of variant A: int(logic.get("slow", 26))
SlowOf(c) == Get(Get(c, "logic", <<>>), "slow", 26)

\* generate_signal(symbol, klines, cfg, htf_klines): the signal it returns
generate_signal(kl, htf, c) ==
    LET logic == Get(c, "logic", <<>>)
    IN  IF ModeOf(c) = "B"
        THEN IF htf = <<>> THEN Ret(0)
             ELSE generate_signal_b_pullback(kl, htf, c)
        ELSE LET cl == extract_closes(kl)
             IN  IF Len(cl) < 10 THEN Ret(0)
                 ELSE LET filters_cfg == Get(c, "filters", <<>>)
                          fast == Get(logic, "fast", 12)
                          slow == SlowOf(c)
                          sig  == Get(logic, "sig", 9)
                          base == base_signal_from_ma(cl, fast, slow, sig)
                          dbg  == ("raw_signal" :> base.value) @@ ("fast" :> fast) @@
                                  ("slow" :> slow) @@ ("sig" :> sig)
                          htf_cl == IF htf # <<>> THEN extract_closes(htf) ELSE None
                      IN  IF base.raised THEN Raise
                          ELSE IF base.value = 0 THEN Ret(0)
                          ELSE Ret(apply_filters(base.value, cl, htf_cl, filters_cfg, dbg).sig)

----------------------------------------------------------------------------
(* Inputs of generate_signal *)

\* most candle rows handed to one generate_signal call
MaxCandles == 10

\* a rising candle, a falling candle, and a row whose close does not convert
Up == Row(Some(1), Some(2), Some(1), Some(2))

Down == Row(Some(2), Some(2), Some(1), Some(1))

BadClose == Row(Some(1), Some(2), Some(1), None)

\* number of most recent candles drawn freely
TailLen == 4

\* k copies of the row x
Pad(x, k) == [i \in 1..k |-> x]

\* the candle lists explored: a run of equal candles (a steady market)
\* followed by up to TailLen candles drawn freely, up to MaxCandles rows in
\* all; and the same lists of full length with the first row unusable
KlineLists ==
    LET tails == SeqsUpTo({Up, Down}, TailLen)
        lists == {Pad(x, k) \o q : x \in {Up, Down}, k \in 0..(MaxCandles - TailLen), q \in tails}
    IN  lists \cup {<<BadClose>> \o Tail(r) : r \in {q \in lists : Len(q) = MaxCandles}}

\* higher-timeframe rows: absent, empty, too short, rising, falling, level
HtfKlineLists ==
    { None, <<Up>>, <<Down, Down, Down, Down, Up>>, <<Up, Up, Up, Up, Down>>,
      <<Up, Up, Up, Up, Up>> }

\* filters that let a moving market through
OpenFilters ==
    ("breakout_lookback" :> 0) @@ ("rsi_long_overbought" :> R(101)) @@
    ("rsi_short_oversold" :> R(-1)) @@ ShortPeriods

\* variant B with periods short enough for the candle lists explored
ShortB ==
    ("pullback_near_pct" :> Norm(1, 2)) @@ ("guard_break_pct" :> Norm(1, 2)) @@
    ("htf_fast" :> 2) @@ ("htf_slow" :> 3) @@
    ("entry_ma1" :> 1) @@ ("entry_ma2" :> 3) @@ ("guard_ma" :> 3)

\* the configurations explored: all defaults (variant A, 12/26/9); variant A
\* with a slow period of 9, of 10 and of 0; variant B without and with its
\* optional RSI/ATR vetoes
SignalConfigs ==
    { <<>>,
      [logic |-> ("fast" :> 4) @@ ("slow" :> 9), filters |-> OpenFilters],
      [logic |-> ("fast" :> 4) @@ ("slow" :> 10), filters |-> OpenFilters],
      [logic |-> ("fast" :> 4) @@ ("slow" :> 0), filters |-> OpenFilters],
      [logic |-> ("mode" :> "b") @@
                 ("B" :> (("use_rsi_filter" :> FALSE) @@ ("use_atr_filter" :> FALSE) @@ ShortB)),
       filters |-> ShortPeriods],
      [logic |-> ("mode" :> "B") @@ ("B" :> ShortB), filters |-> ShortPeriods] }

----------------------------------------------------------------------------
(* generate_signal as a process: one call on the inputs drawn *)

SignalInit ==
    /\ LedgerNew
    /\ FiltersIdle
    /\ RunIdle
    /\ SizingIdle
    /\ IndicatorIdle
    /\ klines \in KlineLists
    /\ htf_klines \in HtfKlineLists
    /\ config \in SignalConfigs
    /\ signal = None

Called(guard) ==
    /\ signal = None
    /\ guard
    /\ signal' = Some(generate_signal(klines, htf_klines, config))
    /\ UNCHANGED <<klines, htf_klines, config, signalRest>>

\* variant B called without higher-timeframe rows
CallBMissingHtf == Called(ModeOf(config) = "B" /\ htf_klines = <<>>)

\* variant B
CallVariantB == Called(ModeOf(config) = "B" /\ htf_klines # <<>>)

\* variant A
CallVariantA == Called(ModeOf(config) # "B")

SignalNext ==
    \/ CallBMissingHtf
    \/ CallVariantB
    \/ CallVariantA

SpecSignal == SignalInit /\ [][SignalNext]_vars

----------------------------------------------------------------------------
(* bot/main.py : balance, notional limits, close orders, risk controls and  *)
(* the run_once cycle                                                       *)

TEST == "test"

LIVE == "live"

SPOT == "spot"

FUTURES == "futures"

BUY == "buy"

SELL == "sell"

MAX_ORDERS_PER_RUN == 6

MAX_SPOT_NOTIONAL_TEST == 10

MAX_FUTURES_NOTIONAL_TEST == 10

MAX_SPOT_NOTIONAL_LIVE == 10

MAX_FUTURES_NOTIONAL_LIVE == 10

LIVE_RISK_PER_TRADE == Norm(2, 100)

MAX_FUTURES_CONTRACTS_PER_ORDER == 100

MIN_USDT_FREE_FOR_OPEN == 20

RMin(a, b) == IF RLe(a, b) THEN a ELSE b

RMax(a, b) == IF RLe(a, b) THEN b ELSE a

\* the balance _fetch_usdt_balance reports when the demo endpoint is unavailable
PseudoBalance == R(9999999)

\* an OrderRequest of the main loop: the fields the cycle reads
Order(market, symbol, side, amount, reduce_only) ==
    [market |-> market, symbol |-> symbol, side |-> side, amount |-> amount, reduce_only |-> reduce_only]

\* _fetch_usdt_balance answering every error with the pseudo balance
fetch_usdt_balance_always_pseudo(e, outcome) ==
    IF outcome.kind = "ok" THEN <<outcome.total, outcome.free>>
    ELSE <<PseudoBalance, PseudoBalance>>

\* _fetch_usdt_balance(env, spot_ex): (total, free); the outcome of
\* spot_ex.fetch_balance() is a balance, or an error that is or is not the
\* demo-unavailable one
fetch_usdt_balance(e, outcome) ==
    IF outcome.kind = "ok" THEN <<outcome.total, outcome.free>>
    ELSE IF e = TEST /\ outcome.kind = "demo_unavailable" THEN <<PseudoBalance, PseudoBalance>>
    ELSE <<R(0), R(0)>>

\* _get_notional_limits with the larger of the two live caps
get_notional_limits_max(e, total) ==
    IF e = TEST THEN <<R(MAX_SPOT_NOTIONAL_TEST), R(MAX_FUTURES_NOTIONAL_TEST)>>
    ELSE LET dynamic_cap == RMul(RMax(R(0), total), LIVE_RISK_PER_TRADE)
         IN  IF RLe(RMax(R(0), total), R(0)) THEN <<R(0), R(0)>>
             ELSE <<RMax(R(MAX_SPOT_NOTIONAL_LIVE), dynamic_cap),
                    RMax(R(MAX_FUTURES_NOTIONAL_LIVE), dynamic_cap)>>

\* _get_notional_limits(env, total_usdt): (max_spot_notional, max_futures_notional)
get_notional_limits(e, total) ==
    IF e = TEST THEN <<R(MAX_SPOT_NOTIONAL_TEST), R(MAX_FUTURES_NOTIONAL_TEST)>>
    ELSE LET dynamic_cap == RMul(RMax(R(0), total), LIVE_RISK_PER_TRADE)
         IN  IF RLe(RMax(R(0), total), R(0)) THEN <<R(0), R(0)>>
             ELSE <<RMin(R(MAX_SPOT_NOTIONAL_LIVE), dynamic_cap),
                    RMin(R(MAX_FUTURES_NOTIONAL_LIVE), dynamic_cap)>>

\* _get_tp_sl_for_leverage(leverage): (tp1, tp2, sl)
get_tp_sl_for_leverage(leverage) ==
    LET lev == RMax(R(1), leverage)
    IN  IF RLe(lev, R(5)) THEN <<Norm(5, 100), Norm(10, 100), Norm(-3, 100)>>
        ELSE IF RLe(lev, R(10)) THEN <<Norm(4, 100), Norm(8, 100), Norm(-2, 100)>>
        ELSE <<Norm(3, 100), Norm(6, 100), Norm(-15, 1000)>>

CloseOrderForFullAtTp1(pos, tk) ==
    IF pos.symbol = None \/ pos.contracts = None THEN None
    ELSE IF pos.contracts[1] = R(0) THEN None
    ELSE IF pos.side \notin {"long", "buy", "short", "sell"} THEN None
    ELSE IF pos.entryPrice = None THEN None
    ELSE IF pos.entryPrice[1] = R(0) THEN None
    ELSE IF tk[pos.symbol[1]] = None THEN None
    ELSE IF RLe(pos.entryPrice[1], R(0)) THEN None
    ELSE LET size        == pos.contracts[1]
             is_long     == pos.side \in {"long", "buy"}
             entry_price == pos.entryPrice[1]
             last_price  == tk[pos.symbol[1]][1]
             lev         == IF pos.leverage = None THEN R(3) ELSE pos.leverage[1]
             tpsl        == get_tp_sl_for_leverage(lev)
             tp1         == tpsl[1]
             tp2         == tpsl[2]
             sl          == tpsl[3]
             pnl_pct     == IF is_long THEN RDiv(RSub(last_price, entry_price), entry_price)
                            ELSE RDiv(RSub(entry_price, last_price), entry_price)
             half        == RMul(RAbs(size), Norm(1, 2))
             amount      == IF RLe(pnl_pct, sl) THEN RAbs(size)
                            ELSE IF RLe(tp2, pnl_pct) THEN RAbs(size)
                            ELSE IF RLe(tp1, pnl_pct)
                            THEN RAbs(size)
                            ELSE R(0)
         IN  IF RLe(amount, R(0)) THEN None
             ELSE Some(Order(FUTURES, pos.symbol[1], IF is_long THEN SELL ELSE BUY, amount, TRUE))

\* one pass of the loop of _generate_futures_close_orders: the close order for
\* position pos, or None when the position is skipped (a missing field, no
\* threshold hit, or an exception such as a failed ticker fetch)
CloseOrderFor(pos, tk) ==
    IF pos.symbol = None \/ pos.contracts = None THEN None
    ELSE IF pos.contracts[1] = R(0) THEN None
    ELSE IF pos.side \notin {"long", "buy", "short", "sell"} THEN None
    ELSE IF pos.entryPrice = None THEN None
    ELSE IF pos.entryPrice[1] = R(0) THEN None
    ELSE IF tk[pos.symbol[1]] = None THEN None
    ELSE IF RLe(pos.entryPrice[1], R(0)) THEN None
    ELSE LET size        == pos.contracts[1]
             is_long     == pos.side \in {"long", "buy"}
             entry_price == pos.entryPrice[1]
             last_price  == tk[pos.symbol[1]][1]
             lev         == IF pos.leverage = None THEN R(3) ELSE pos.leverage[1]
             tpsl        == get_tp_sl_for_leverage(lev)
             tp1         == tpsl[1]
             tp2         == tpsl[2]
             sl          == tpsl[3]
             pnl_pct     == IF is_long THEN RDiv(RSub(last_price, entry_price), entry_price)
                            ELSE RDiv(RSub(entry_price, last_price), entry_price)
             half        == RMul(RAbs(size), Norm(1, 2))
             amount      == IF RLe(pnl_pct, sl) THEN RAbs(size)
                            ELSE IF RLe(tp2, pnl_pct) THEN RAbs(size)
                            ELSE IF RLe(tp1, pnl_pct)
                            THEN (IF RLe(half, R(0)) THEN RAbs(size) ELSE half)
                            ELSE R(0)
         IN  IF RLe(amount, R(0)) THEN None
             ELSE Some(Order(FUTURES, pos.symbol[1], IF is_long THEN SELL ELSE BUY, amount, TRUE))

\* the loop of _generate_futures_close_orders over positions 1..i
RECURSIVE CloseLoop(_, _, _)
CloseLoop(ps, tk, i) ==
    IF i = 0 THEN <<>>
    ELSE CloseLoop(ps, tk, i - 1) \o CloseOrderFor(ps[i], tk)

\* _generate_futures_close_orders(env, fut_ex): ps is what fetch_positions
\* returned, None when it raised
generate_futures_close_orders(ps, tk) ==
    IF ps = None THEN <<>> ELSE CloseLoop(ps, tk, Len(ps))

\* key = (o.market, o.symbol, o.side.value, bool(o.reduce_only))
OrderKey(o) == <<o.market, o.symbol, o.side, o.reduce_only>>

\* the dedupe loop keeping the last occurrence of each key
RECURSIVE DedupedKeepLast(_)
DedupedKeepLast(os) ==
    IF os = <<>> THEN <<>>
    ELSE IF \E j \in 2..Len(os) : OrderKey(os[j]) = OrderKey(os[1])
    THEN DedupedKeepLast(Tail(os))
    ELSE <<os[1]>> \o DedupedKeepLast(Tail(os))

\* the dedupe loop: the first order of each key, in input order
RECURSIVE Deduped(_)
Deduped(os) ==
    IF os = <<>> THEN <<>>
    ELSE LET front == Deduped(SubSeq(os, 1, Len(os) - 1))
             o     == os[Len(os)]
         IN  IF \E j \in 1..Len(front) : OrderKey(front[j]) = OrderKey(o)
             THEN front
             ELSE Append(front, o)

\* no limit on the number of orders
NotTruncated(os) == os

\* if len(orders) > MAX_ORDERS_PER_RUN: orders = orders[:MAX_ORDERS_PER_RUN]
Truncated(os) ==
    IF Len(os) > MAX_ORDERS_PER_RUN THEN SubSeq(os, 1, MAX_ORDERS_PER_RUN) ELSE os

\* truncation applied before deduplication
TruncatedThenDeduped(os) == Deduped(Truncated(os))

\* deduplication, then truncation
DedupedThenTruncated(os) == Truncated(Deduped(os))

\* the scaling condition without the comparison of the notional with the cap
ExceedsAlways(last_price, max_notional, notional) ==
    RLt(R(0), last_price) /\ RLt(R(0), max_notional)

\* last_price > 0 and max_notional > 0 and notional > max_notional
Exceeds(last_price, max_notional, notional) ==
    RLt(R(0), last_price) /\ RLt(R(0), max_notional) /\ RLt(max_notional, notional)

\* the spot branch of the adjustment loop; a failed ticker fetch is caught
\* and the order kept as it is
AdjustSpot(o, tk, max_spot) ==
    IF tk[o.symbol] = None THEN o
    ELSE LET last_price == tk[o.symbol][1]
             notional   == RMul(o.amount, last_price)
         IN  IF Exceeds(last_price, max_spot, notional)
             THEN [o EXCEPT !.amount = RDiv(max_spot, last_price)]
             ELSE o

\* the futures branch with a failed lookup dropping the order
AdjustFuturesDropOnFailure(o, tk, mk, max_fut) ==
    IF mk[o.symbol] = None \/ tk[o.symbol] = None THEN None
    ELSE LET cs            == mk[o.symbol][1]
             contract_size == IF cs = None \/ cs = Some(R(0)) THEN R(1) ELSE cs[1]
             last_price    == tk[o.symbol][1]
             notional      == RMul(RMul(o.amount, contract_size), last_price)
         IN  IF Exceeds(last_price, max_fut, notional)
             THEN Some([o EXCEPT !.amount = RMin(RDiv(max_fut, RMul(contract_size, last_price)),
                                                 R(MAX_FUTURES_CONTRACTS_PER_ORDER))])
             ELSE IF RLt(R(MAX_FUTURES_CONTRACTS_PER_ORDER), o.amount)
             THEN Some([o EXCEPT !.amount = R(MAX_FUTURES_CONTRACTS_PER_ORDER)])
             ELSE Some(o)

\* the futures branch of the adjustment loop; a failed market lookup or
\* ticker fetch is caught and the order kept as it is
AdjustFutures(o, tk, mk, max_fut) ==
    IF mk[o.symbol] = None \/ tk[o.symbol] = None THEN Some(o)
    ELSE LET cs            == mk[o.symbol][1]
             contract_size == IF cs = None \/ cs = Some(R(0)) THEN R(1) ELSE cs[1]
             last_price    == tk[o.symbol][1]
             notional      == RMul(RMul(o.amount, contract_size), last_price)
         IN  IF Exceeds(last_price, max_fut, notional)
             THEN Some([o EXCEPT !.amount = RMin(RDiv(max_fut, RMul(contract_size, last_price)),
                                                 R(MAX_FUTURES_CONTRACTS_PER_ORDER))])
             ELSE IF RLt(R(MAX_FUTURES_CONTRACTS_PER_ORDER), o.amount)
             THEN Some([o EXCEPT !.amount = R(MAX_FUTURES_CONTRACTS_PER_ORDER)])
             ELSE Some(o)

\* the adjustment loop over orders 1..i: every order is appended
RECURSIVE AdjustLoop(_, _, _, _, _, _)
AdjustLoop(os, tk, mk, max_spot, max_fut, i) ==
    IF i = 0 THEN <<>>
    ELSE AdjustLoop(os, tk, mk, max_spot, max_fut, i - 1) \o
         (IF os[i].market = SPOT THEN <<AdjustSpot(os[i], tk, max_spot)>>
          ELSE AdjustFutures(os[i], tk, mk, max_fut))

\* _apply_risk_controls(env, orders, spot_ex, fut_ex, max_spot_notional, max_fut_notional)
apply_risk_controls(os, tk, mk, max_spot, max_fut) ==
    LET kept == DedupedThenTruncated(os)
    IN  AdjustLoop(kept, tk, mk, max_spot, max_fut, Len(kept))

----------------------------------------------------------------------------
(* Inputs of the run cycle *)

\* longest list of orders drawn freely
MaxBatch == 2

SpotBTC == "BTC/USDT"

SwapBTC == "BTC/USDT:USDT"

SwapETH == "ETH/USDT:USDT"

RunSymbols == {SpotBTC, SwapBTC, SwapETH}

\* fetch_ticker(symbol)["last"] for each symbol: a price, or None when the
\* fetch (or the conversion of the price) fails
AllQuoted == (SpotBTC :> Some(R(5))) @@ (SwapBTC :> Some(R(5))) @@ (SwapETH :> Some(R(5)))

\* fut_ex.market(symbol): the contract size it reports (None: not reported),
\* or None when the lookup fails; one BTC contract is 0.01 BTC
AllListed == (SpotBTC :> Some(None)) @@ (SwapBTC :> Some(Some(Norm(1, 100)))) @@ (SwapETH :> Some(None))

\* the exchange as the cycle finds it: every lookup answers; one ticker fails;
\* the spot price reads 0; the ETH market lookup fails; every ticker fails
Worlds ==
    { [ticker |-> AllQuoted, market |-> AllListed],
      [ticker |-> (SpotBTC :> None) @@ AllQuoted, market |-> AllListed],
      [ticker |-> (SwapBTC :> None) @@ AllQuoted, market |-> AllListed],
      [ticker |-> (SpotBTC :> Some(R(0))) @@ AllQuoted, market |-> AllListed],
      [ticker |-> AllQuoted, market |-> (SwapETH :> None) @@ AllListed],
      [ticker |-> [s \in RunSymbols |-> None], market |-> AllListed] }

\* the opening orders a strategy hands over, one per (market, symbol, side):
\* notionals above, at and below a cap of 10, and contract counts above 100
OpenPool ==
    << Order(SPOT, SpotBTC, BUY, R(3), FALSE),
       Order(FUTURES, SwapBTC, SELL, R(150), FALSE),
       Order(FUTURES, SwapETH, BUY, R(3), FALSE),
       Order(SPOT, SpotBTC, SELL, R(1), FALSE),
       Order(FUTURES, SwapBTC, BUY, R(300), FALSE),
       Order(FUTURES, SwapETH, SELL, R(2), FALSE) >>

\* the same orders marked reduce-only, with other amounts
ReducePool ==
    << Order(SPOT, SpotBTC, BUY, R(2), TRUE),
       Order(FUTURES, SwapBTC, SELL, R(50), TRUE),
       Order(FUTURES, SwapETH, BUY, R(1), TRUE),
       Order(SPOT, SpotBTC, SELL, R(3), TRUE),
       Order(FUTURES, SwapBTC, BUY, R(200), TRUE),
       Order(FUTURES, SwapETH, SELL, R(3), TRUE) >>

Range(f) == {f[i] : i \in DOMAIN f}

\* xs with x inserted so that it becomes element j
InsertAt(xs, j, x) == SubSeq(xs, 1, j - 1) \o <<x>> \o SubSeq(xs, j, Len(xs))

\* a second order with the key of o and another amount
Again(o) == [o EXCEPT !.amount = RAdd(o.amount, R(1))]

\* batches long enough to be truncated: a prefix of the pool of up to
\* MAX_ORDERS_PER_RUN + 2 orders, alone or with a later duplicate of one of
\* its orders
LongBatches(pool) ==
    LET longest  == IF Len(pool) < MAX_ORDERS_PER_RUN + 2 THEN Len(pool) ELSE MAX_ORDERS_PER_RUN + 2
        prefixes == {SubSeq(pool, 1, n) : n \in 0..longest}
        withDup  == UNION {UNION {{InsertAt(p, j, Again(p[i])) : j \in (i + 1)..(Len(p) + 1)}
                                  : i \in 1..Len(p)} : p \in prefixes}
    IN  {b \in prefixes \cup withDup : Len(b) >= MAX_ORDERS_PER_RUN}

\* the batches handed to _apply_risk_controls: every list of up to MaxBatch
\* pool orders, and the long batches
Batches ==
    LET pool == OpenPool \o ReducePool
    IN  SeqsUpTo(Range(pool), MaxBatch) \cup LongBatches(pool)

\* what strategy.generate_orders returns: every list of up to MaxBatch opening
\* orders, and the long batches of opening orders
OpenBatches ==
    SeqsUpTo(Range(OpenPool), MaxBatch) \cup LongBatches(OpenPool)

\* what spot_ex.fetch_balance() can answer: a USDT balance (total, free), a
\* balance whose total is missing, or an error
Balance(total, free) == [kind |-> "ok", total |-> R(total), free |-> R(free)]

FetchError(kind) == [kind |-> kind, total |-> R(0), free |-> R(0)]

BalanceOutcomes(e) ==
    IF e = TEST
    THEN {Balance(1000, 500), FetchError("demo_unavailable"), FetchError("error")}
    ELSE {Balance(1000, 500), Balance(300, 100), Balance(300, 5), Balance(0, 50), FetchError("error")}

\* a row of fut_ex.fetch_positions(): a field is None when missing or falsy
Position(symbol, contracts, side, entryPrice, leverage) ==
    [symbol |-> symbol, contracts |-> contracts, side |-> side, entryPrice |-> entryPrice, leverage |-> leverage]

\* a long at 10 now quoted 5 (stop-loss)
LosingLongBTC == Position(Some(SwapBTC), Some(R(300)), "long", Some(R(10)), None)

\* a short at 4 now quoted 5 (stop-loss), its size reported negative
LosingShortETH == Position(Some(SwapETH), Some(R(-2)), "short", Some(R(4)), None)

\* a long at 5 now quoted 5 (no threshold hit)
FlatLongBTC == Position(Some(SwapBTC), Some(R(4)), "long", Some(R(5)), None)

\* a 20x long at 4.8 now quoted 5 (first take-profit tier)
WinningLongETH == Position(Some(SwapETH), Some(R(4)), "buy", Some(Norm(24, 5)), Some(R(20)))

\* a short at 10 now quoted 5 (second take-profit tier)
WinningShortBTC == Position(Some(SwapBTC), Some(R(6)), "sell", Some(R(10)), Some(R(10)))

\* a row without a symbol
NamelessPosition == Position(None, Some(R(1)), "long", Some(R(5)), None)

\* what fetch_positions can answer (None: it raised)
PositionLists ==
    { None,
      <<LosingLongBTC>>,
      <<NamelessPosition, LosingShortETH>>,
      <<LosingLongBTC, LosingShortETH>>,
      <<FlatLongBTC, WinningLongETH>>,
      <<WinningShortBTC, WinningLongETH>> }

----------------------------------------------------------------------------
(* run_once as a process: sanity check, balance and limits, close orders,   *)
(* opening orders, risk controls, order placement                           *)

\* run_once has read its environment and built its clients
RunInit ==
    /\ LedgerNew
    /\ FiltersIdle
    /\ SignalIdle
    /\ SizingIdle
    /\ IndicatorIdle
    /\ env \in {TEST, LIVE}
    /\ pc = "start"
    /\ \E w \in Worlds : tickers = w.ticker /\ markets = w.market
    /\ sanity_ok = None
    /\ balance_failed = FALSE
    /\ total_usdt = R(0)
    /\ free_usdt = R(0)
    /\ max_spot_notional = R(0)
    /\ max_fut_notional = R(0)
    /\ fut_positions = None
    /\ close_orders = <<>>
    /\ open_orders = <<>>
    /\ all_orders = <<>>
    /\ orders = <<>>
    /\ placed = <<>>

\* if env == Env.LIVE: if not _run_live_sanity_checks(...): return
LiveSanityCheck ==
    /\ pc = "start"
    /\ env = LIVE
    /\ \E balance_ok \in BOOLEAN, markets_ok \in BOOLEAN :
          /\ sanity_ok' = Some(balance_ok /\ markets_ok)
          /\ pc' = IF balance_ok /\ markets_ok THEN "balance" ELSE "done"
    /\ UNCHANGED <<env, tickers, markets, balance_failed, total_usdt, free_usdt,
                   max_spot_notional, max_fut_notional, fut_positions, close_orders,
                   open_orders, all_orders, orders, placed, runRest>>

\* total_usdt, free_usdt = _fetch_usdt_balance(env, spot_ex);
\* max_spot_notional, max_fut_notional = _get_notional_limits(env, total_usdt)
FetchBalance ==
    /\ \/ pc = "start" /\ env = TEST
       \/ pc = "balance"
    /\ \E outcome \in BalanceOutcomes(env) :
          LET bal    == fetch_usdt_balance(env, outcome)
              limits == get_notional_limits(env, bal[1])
          IN  /\ balance_failed' = (outcome.kind # "ok")
              /\ total_usdt' = bal[1]
              /\ free_usdt' = bal[2]
              /\ max_spot_notional' = limits[1]
              /\ max_fut_notional' = limits[2]
    /\ pc' = "close"
    /\ UNCHANGED <<env, tickers, markets, sanity_ok, fut_positions, close_orders,
                   open_orders, all_orders, orders, placed, runRest>>

\* close_orders = _generate_futures_close_orders(env, fut_ex)
GenerateCloseOrders ==
    /\ pc = "close"
    /\ \E ps \in PositionLists :
          /\ fut_positions' = ps
          /\ close_orders' = generate_futures_close_orders(ps, tickers)
    /\ pc' = "open"
    /\ UNCHANGED <<env, tickers, markets, sanity_ok, balance_failed, total_usdt, free_usdt,
                   max_spot_notional, max_fut_notional, open_orders, all_orders, orders,
                   placed, runRest>>

\* the threshold test with the total balance in place of the free balance
CanOpenNewByTotal(e, total, free) == e # LIVE \/ RLe(R(MIN_USDT_FREE_FOR_OPEN), total)

\* can_open_new: in LIVE, free_usdt >= MIN_USDT_FREE_FOR_OPEN
CanOpenNew(e, total, free) == e # LIVE \/ RLe(R(MIN_USDT_FREE_FOR_OPEN), free)

\* open_orders = strategy.generate_orders(env) if can_open_new;
\* return when there is nothing to do; all_orders = close_orders + open_orders
GenerateOpenOrders ==
    /\ pc = "open"
    /\ \E generated \in OpenBatches :
          LET new_orders == IF CanOpenNew(env, total_usdt, free_usdt) THEN generated ELSE <<>>
          IN  /\ open_orders' = new_orders
              /\ IF close_orders = <<>> /\ new_orders = <<>>
                 THEN pc' = "done" /\ UNCHANGED all_orders
                 ELSE pc' = "risk" /\ all_orders' = close_orders \o new_orders
    /\ UNCHANGED <<env, tickers, markets, sanity_ok, balance_failed, total_usdt, free_usdt,
                   max_spot_notional, max_fut_notional, fut_positions, close_orders, orders,
                   placed, runRest>>

\* orders = _apply_risk_controls(...); return when nothing is left
ApplyRiskControls ==
    /\ pc = "risk"
    /\ orders' = apply_risk_controls(all_orders, tickers, markets, max_spot_notional, max_fut_notional)
    /\ pc' = IF orders' = <<>> THEN "done" ELSE "place"
    /\ UNCHANGED <<env, tickers, markets, sanity_ok, balance_failed, total_usdt, free_usdt,
                   max_spot_notional, max_fut_notional, fut_positions, close_orders,
                   open_orders, all_orders, placed, runRest>>

\* for req in orders: trader.place_order(req)
PlaceOrders ==
    /\ pc = "place"
    /\ placed' = orders
    /\ pc' = "done"
    /\ UNCHANGED <<env, tickers, markets, sanity_ok, balance_failed, total_usdt, free_usdt,
                   max_spot_notional, max_fut_notional, fut_positions, close_orders,
                   open_orders, all_orders, orders, runRest>>

RunNext ==
    \/ LiveSanityCheck
    \/ FetchBalance
    \/ GenerateCloseOrders
    \/ GenerateOpenOrders
    \/ ApplyRiskControls
    \/ PlaceOrders

SpecRun == RunInit /\ [][RunNext]_vars

\* _apply_risk_controls called on its own: any environment, a balance that
\* was read, the limits that follow from it, a batch of orders
RiskInit ==
    /\ LedgerNew
    /\ FiltersIdle
    /\ SignalIdle
    /\ SizingIdle
    /\ IndicatorIdle
    /\ env \in {TEST, LIVE}
    /\ pc = "risk"
    /\ \E w \in Worlds : tickers = w.ticker /\ markets = w.market
    /\ sanity_ok = None
    /\ balance_failed = FALSE
    /\ \E outcome \in {b \in BalanceOutcomes(env) : b.kind = "ok"} :
          /\ total_usdt = outcome.total
          /\ free_usdt = outcome.free
    /\ max_spot_notional = get_notional_limits(env, total_usdt)[1]
    /\ max_fut_notional = get_notional_limits(env, total_usdt)[2]
    /\ fut_positions = None
    /\ close_orders = <<>>
    /\ open_orders = <<>>
    /\ all_orders \in Batches
    /\ orders = <<>>
    /\ placed = <<>>

RiskNext == ApplyRiskControls

SpecRisk == RiskInit /\ [][RiskNext]_vars

----------------------------------------------------------------------------
(* bot/trader.py : OKXTrader order sizing (open_long / open_short)          *)

RoundUp(x) == IF x[1] % x[2] = 0 THEN x[1] \div x[2] ELSE (x[1] \div x[2]) + 1

\* int(x) on a float: truncation toward zero
Trunc(x) == IF x[1] >= 0 THEN x[1] \div x[2] ELSE -((-x[1]) \div x[2])

\* str(n) for an int n >= 0: its decimal digits, most significant first
RECURSIVE Str(_)
Str(n) == IF n < 10 THEN <<n>> ELSE Append(Str(n \div 10), n % 10)

\* the number a string of decimal digits denotes
RECURSIVE IntOf(_)
IntOf(ds) == IF ds = <<>> THEN 0 ELSE 10 * IntOf(SubSeq(ds, 1, Len(ds) - 1)) + ds[Len(ds)]

\* get_equity_usdt(): the summed USDT equity, or 100.0 when that is not positive
get_equity_usdt(total_equity) == IF RLe(total_equity, R(0)) THEN R(100) ELSE total_equity

\* the size as computed, without the floor of one contract
NoFloor(sz) == sz

\* if sz < 1: sz = 1
FloorOne(sz) == IF sz < 1 THEN 1 ELSE sz

\* _calc_order_size_by_risk(inst_id, ref_price): the number of contracts, as a string;
\* risk_cfg_max_pos is risk.max_pos, ct is what get_contract_value returned
calc_order_size_by_risk(risk_cfg_max_pos, total_equity, ct, ref_price) ==
    LET max_pos_pct == risk_cfg_max_pos
        equity      == get_equity_usdt(total_equity)
        notional    == RMul(equity, max_pos_pct)
        ct_val      == IF RLe(ct, R(0)) THEN R(1) ELSE ct
        sz          == IF ref_price # None /\ RLt(R(0), ref_price[1])
                       THEN LET cn == RMul(ct_val, ref_price[1])
                                contract_notional == IF RLe(cn, R(0)) THEN ref_price[1] ELSE cn
                            IN  Trunc(RDiv(notional, contract_notional))
                       ELSE Trunc(RDiv(notional, ct_val))
    IN  Str(FloorOne(sz))

\* the inputs of one open_long / open_short call: the configured risk.max_pos,
\* the account's summed equity, the instrument's contract value, the ref_price
\* argument (None: not given) and what get_last_price would answer (None: it raises)
SizingInputs ==
    [max_pos      : {Norm(5, 100), R(1)},
     total_equity : {R(0), R(50), R(1000)},
     ct_val       : {R(0), Norm(1, 100), R(1)},
     ref_price    : {None, Some(R(0)), Some(R(5)), Some(R(20)), Some(R(25000))},
     last         : {None, Some(R(0)), Some(R(5))}]

SizingInit ==
    /\ LedgerNew
    /\ FiltersIdle
    /\ SignalIdle
    /\ RunIdle
    /\ IndicatorIdle
    /\ sizing \in {Some(i) : i \in SizingInputs}
    /\ sized = None

\* open_long / open_short: fetch the price when none is given, size the order
\* and place it; an error of get_last_price escapes and nothing is placed
Open(side, pos_side) ==
    /\ sizing # None
    /\ sized = None
    /\ LET inp       == sizing[1]
           ref_price == IF inp.ref_price = None THEN inp.last ELSE inp.ref_price
       IN  sized' = IF ref_price = None
                    THEN Some([placed |-> FALSE, side |-> side, posSide |-> pos_side, sz |-> <<>>])
                    ELSE Some([placed |-> TRUE, side |-> side, posSide |-> pos_side,
                               sz |-> calc_order_size_by_risk(inp.max_pos, inp.total_equity,
                                                              inp.ct_val, ref_price)])
    /\ UNCHANGED <<sizing, sizingRest>>

open_long == Open("buy", "long")

open_short == Open("sell", "short")

SizingNext ==
    \/ open_long
    \/ open_short

SpecSizing == SizingInit /\ [][SizingNext]_vars

\* the order-sizing call and the risk adjuster, each called on its own
SizingOrRiskInit == SizingInit \/ RiskInit

SizingOrRiskNext ==
    \/ open_long
    \/ open_short
    \/ ApplyRiskControls

SpecSizingOrRisk == SizingOrRiskInit /\ [][SizingOrRiskNext]_vars

----------------------------------------------------------------------------
(* bot/strategy.py : rsi and extract_ohlc, each called on its own *)

\* the series handed to rsi: every series of up to MaxLen closes, the empty one included
RsiSeries == SeqsUpTo(CloseVals, MaxLen)

\* the periods handed to rsi: negative, zero, and up to the longest series
RsiPeriods == (-1)..MaxLen

RsiInit ==
    /\ LedgerNew
    /\ FiltersIdle
    /\ SignalIdle
    /\ RunIdle
    /\ SizingIdle
    /\ rsi_args \in {Some([series |-> q, period |-> k]) : q \in RsiSeries, k \in RsiPeriods}
    /\ rsi_ret = None
    /\ ohlc_args = None
    /\ ohlc_ret = None

\* rsi(series, period)
CallRsi ==
    /\ rsi_args # None
    /\ rsi_ret = None
    /\ rsi_ret' = Some(rsi(rsi_args[1].series, rsi_args[1].period))
    /\ UNCHANGED <<rsi_args, ohlc_args, ohlc_ret, indicatorRest>>

RsiNext == CallRsi

SpecRsi == RsiInit /\ [][RsiNext]_vars

\* most candle rows handed to one extract_ohlc call
MaxRows == 3

\* a row whose high does not convert, and a row too short to hold any field
BadHigh == Row(Some(1), None, Some(1), Some(2))

ShortRow == Row(None, None, None, None)

\* the candle lists handed to extract_ohlc
RowLists == SeqsUpTo({Up, Down, BadClose, BadHigh, ShortRow}, MaxRows)

OhlcInit ==
    /\ LedgerNew
    /\ FiltersIdle
    /\ SignalIdle
    /\ RunIdle
    /\ SizingIdle
    /\ rsi_args = None
    /\ rsi_ret = None
    /\ ohlc_args \in {Some(q) : q \in RowLists}
    /\ ohlc_ret = None

\* extract_ohlc(klines)
CallExtractOhlc ==
    /\ ohlc_args # None
    /\ ohlc_ret = None
    /\ ohlc_ret' = Some(extract_ohlc(ohlc_args[1]))
    /\ UNCHANGED <<rsi_args, rsi_ret, ohlc_args, indicatorRest>>

OhlcNext == CallExtractOhlc

SpecOhlc == OhlcInit /\ [][OhlcNext]_vars

----------------------------------------------------------------------------
(* History of the ledger, derived from the recorded calls *)

\* indices of the calls for symbol s that carried a position_side
SideFills(s) ==
    {i \in 1..Len(fills) :
        fills[i].req.symbol = s /\ fills[i].req.position_side # NoSide}

\* index of the most recent such call (0 when there is none)
LastSideFill(s) ==
    IF SideFills(s) = {} THEN 0
    ELSE CHOOSE i \in SideFills(s) : \A j \in SideFills(s) : j <= i

\* the calls that built position p: those for its symbol since it was opened
RunOf(p) == {i \in SideFills(p.symbol) : i >= p.entry_time}

RECURSIVE SumOver(_, _, _)
SumOver(S, f, cost) ==
    IF S = {} THEN 0
    ELSE LET i == CHOOSE x \in S : TRUE
         IN  (IF cost THEN f[i].fill_price * f[i].req.amount ELSE f[i].req.amount)
             + SumOver(S \ {i}, f, cost)

\* the last call, when one has been made
LastCall == fills[Len(fills)]

\* the last call met a position of the opposite side
LastWasOpposite ==
    /\ fills # <<>>
    /\ LastCall.req.position_side # NoSide
    /\ current # None
    /\ current[1].side # LastCall.req.position_side

\* the last call met a position of the same side
LastWasSameSide ==
    /\ fills # <<>>
    /\ current # None
    /\ current[1].side = LastCall.req.position_side

\* the last call was a directional fill on a flat symbol
LastWasFirst ==
    /\ fills # <<>>
    /\ LastCall.req.position_side # NoSide
    /\ current = None

\* the directional fills of symbol s are exactly a long (call i) then a short (call j)
LongThenShort(s, i, j) ==
    /\ SideFills(s) = {i, j}
    /\ i < j
    /\ fills[i].req.position_side = LONG
    /\ fills[j].req.position_side = SHORT

TradesOf(s) == {k \in 1..Len(log) : log[k].symbol = s}

----------------------------------------------------------------------------
(* Claims about the virtual ledger *)

\* C1: after any sequence of on_order_filled calls, positions holds at most one
\* VirtualPosition per symbol, and that position's side is the side of the most
\* recent fill for that symbol that carried a position_side.
C1_OnePositionPerSymbol ==
    \A s \in Symbols :
        /\ Cardinality({p \in positions : p.symbol = s}) <= 1
        /\ \A p \in positions :
              p.symbol = s =>
                /\ LastSideFill(s) # 0
                /\ p.side = fills[LastSideFill(s)].req.position_side

\* both symbols hold a position and one of them has been flipped
C1_Witness ==
    /\ \A s \in Symbols : DictGet(positions, s) # None
    /\ LastWasOpposite

\* C2: on_order_filled returns (and logs) a ClosedTrade if and only if the symbol
\* already has a position whose side is opposite to the fill's position_side; a
\* first fill on a flat symbol and a same-side fill return no ClosedTrade, and a
\* first fill creates a position with exactly that fill's side, quantity and price.
C2_ClosedTradeIffOpposite ==
    [][ LET c   == fills'[Len(fills')]
            pre == DictGet(positions, c.req.symbol)
            opp == /\ c.req.position_side # NoSide
                   /\ pre # None
                   /\ pre[1].side # c.req.position_side
        IN  /\ (ret' # None) <=> opp
            /\ ret' # None => log' = Append(log, ret'[1])
            /\ ret' = None => log' = log
            /\ (c.req.position_side # NoSide /\ pre = None) =>
                  \E p \in positions' :
                      /\ p.symbol = c.req.symbol
                      /\ p.side = c.req.position_side
                      /\ p.qty = c.req.amount
                      /\ p.entry_price = R(c.fill_price)
      ]_vars

\* a close was returned and logged, after a first fill and a same-side fill
C2_Witness ==
    /\ LastWasOpposite
    /\ ret # None
    /\ current[1].qty > fills[current[1].entry_time].req.amount

\* C3: on an opposite-side fill, the emitted ClosedTrade carries the existing
\* position's side, full quantity and entry price with exit price = the fill
\* price, and afterwards the symbol's position is a fresh one in the fill's
\* direction with quantity = the incoming order's full quantity and entry price
\* = the fill price, whatever the relative sizes of the two quantities.
C3_CloseThenReopen ==
    LastWasOpposite =>
        /\ ret # None
        /\ ret[1].symbol = LastCall.req.symbol
        /\ ret[1].side = current[1].side
        /\ ret[1].qty = current[1].qty
        /\ ret[1].entry_price = current[1].entry_price
        /\ ret[1].exit_price = R(LastCall.fill_price)
        /\ DictGet(positions, LastCall.req.symbol) =
              Some(VirtualPosition(LastCall.req.symbol, LastCall.req.position_side,
                                   LastCall.req.amount, R(LastCall.fill_price),
                                   Len(fills), LastCall.req.reason))

\* an opposite fill smaller than the position it closes
C3_Witness ==
    /\ LastWasOpposite
    /\ LastCall.req.amount < current[1].qty

\* C4: a same-side fill of quantity q at price p onto a position (Q, E) gives
\* quantity Q+q and entry price (E*Q + p*q)/(Q+q); side, open timestamp and
\* opening reason are unchanged; over any run of same-side fills the entry price
\* equals the quantity-weighted average of all fill prices of that run.
C4_WeightedAverageEntry ==
    /\ LastWasSameSide =>
          LET Q == current[1].qty
              E == current[1].entry_price
              q == LastCall.req.amount
              p == LastCall.fill_price
          IN  DictGet(positions, LastCall.req.symbol) =
                Some(VirtualPosition(LastCall.req.symbol, current[1].side, Q + q,
                                     Norm(E[1] * Q + p * q * E[2], E[2] * (Q + q)),
                                     current[1].entry_time, current[1].reason_open))
    /\ \A pos \in positions :
          /\ pos.qty = SumOver(RunOf(pos), fills, FALSE)
          /\ pos.entry_price = Norm(SumOver(RunOf(pos), fills, TRUE),
                                    SumOver(RunOf(pos), fills, FALSE))

\* a same-side fill at another price and with another reason than the opening one
C4_Witness ==
    /\ LastWasSameSide
    /\ R(LastCall.fill_price) # current[1].entry_price
    /\ LastCall.req.reason # current[1].reason_open
    /\ LastCall.req.amount # current[1].qty

\* C5: every ClosedTrade's pnl equals (exit_price - entry_price) * qty when the
\* closed side is long and (entry_price - exit_price) * qty when it is short,
\* where entry_price and qty are those of the position being closed.
C5_PnlFormula ==
    /\ \A k \in 1..Len(log) :
          LET t == log[k]
              d == IF t.side = LONG
                   THEN t.exit_price[1] * t.entry_price[2] - t.entry_price[1] * t.exit_price[2]
                   ELSE t.entry_price[1] * t.exit_price[2] - t.exit_price[1] * t.entry_price[2]
          IN  t.pnl = Norm(d * t.qty, t.entry_price[2] * t.exit_price[2])
    /\ ret # None =>
          /\ ret[1].entry_price = current[1].entry_price
          /\ ret[1].qty = current[1].qty

\* a long and a short have both been closed, each with a non-zero result
C5_Witness ==
    /\ \E k \in 1..Len(log) : log[k].side = LONG /\ log[k].pnl # R(0)
    /\ \E k \in 1..Len(log) : log[k].side = SHORT /\ log[k].pnl # R(0)

\* C6 (as stated): a Long fill of quantity Q at price P1 followed by a Short fill
\* of quantity Q at price P2 on a flat symbol yields exactly one ClosedTrade, and
\* its pnl is (P1 - P2) * Q.
C6_RoundTripPnl_Original ==
    \A s \in Symbols : \A i, j \in 1..Len(fills) :
        (LongThenShort(s, i, j) /\ fills[i].req.amount = fills[j].req.amount) =>
            /\ Cardinality(TradesOf(s)) = 1
            /\ \A k \in TradesOf(s) :
                  log[k].pnl = R((fills[i].fill_price - fills[j].fill_price)
                                 * fills[i].req.amount)

\* C6 (amended): the same round trip yields exactly one ClosedTrade, and its pnl
\* is (P2 - P1) * Q: exit price minus entry price of the closed long.
C6_RoundTripPnl ==
    \A s \in Symbols : \A i, j \in 1..Len(fills) :
        (LongThenShort(s, i, j) /\ fills[i].req.amount = fills[j].req.amount) =>
            /\ Cardinality(TradesOf(s)) = 1
            /\ \A k \in TradesOf(s) :
                  log[k].pnl = R((fills[j].fill_price - fills[i].fill_price)
                                 * fills[i].req.amount)

\* a long/short round trip of equal quantity at two different prices
C6_Witness ==
    \E s \in Symbols : \E i, j \in 1..Len(fills) :
        /\ LongThenShort(s, i, j)
        /\ fills[i].req.amount = fills[j].req.amount
        /\ fills[i].fill_price # fills[j].fill_price

\* C7 (as stated): after a Long fill of quantity Q followed by a Short fill of the
\* same quantity Q on one symbol, the symbol is left in a Short position of size 0.
C7_RoundTripResidual_Original ==
    \A s \in Symbols : \A i, j \in 1..Len(fills) :
        (LongThenShort(s, i, j) /\ fills[i].req.amount = fills[j].req.amount) =>
            \E p \in positions : p.symbol = s /\ p.side = SHORT /\ p.qty = 0

\* C7 (amended): after a Long fill followed by a Short fill on one symbol, the
\* symbol is left in a Short position whose size is the Short fill's full
\* quantity and whose entry price is the Short fill's price, whether the Short
\* fill is equal to, smaller than or larger than the Long one.
C7_RoundTripResidual ==
    \A s \in Symbols : \A i, j \in 1..Len(fills) :
        LongThenShort(s, i, j) =>
            \E p \in positions :
                /\ p.symbol = s
                /\ p.side = SHORT
                /\ p.qty = fills[j].req.amount
                /\ p.entry_price = R(fills[j].fill_price)

\* a long/short round trip of equal quantity has left a short position
C7_Witness ==
    \E s \in Symbols : \E i, j \in 1..Len(fills) :
        /\ LongThenShort(s, i, j)
        /\ fills[i].req.amount = fills[j].req.amount
        /\ \E p \in positions : p.symbol = s /\ p.side = SHORT

----------------------------------------------------------------------------
(* Claims about the filter chain *)

\* the veto conditions of the six filters, restated for a signal of direction
\* dir on the inputs of the call
HtfTrendOfCall ==
    IF htf_closes # None
    THEN detect_htf_trend(htf_closes, Get(cfg_filters, "htf_ma_period", 50))
    ELSE "unknown"

LastRsiOfCall ==
    LET v == rsi(closes, Get(cfg_filters, "rsi_period", 14))
    IN  IF v = <<>> THEN None ELSE v[Len(v)]

AtrPctOfCall ==
    LET a == atr_from_closes(closes, Get(cfg_filters, "atr_period", 14))
    IN  IF a = None THEN None ELSE Some(RDiv(a[1], R(closes[Len(closes)])))

SlopeOfCall ==
    LET e  == ema(closes, Get(debug_info, "fast", Get(cfg_filters, "fast_len_for_slope", 12)))
        lb == Get(cfg_filters, "slope_lookback", 3)
    IN  IF Len(e) > lb
        THEN Some(RDiv(RSub(e[Len(e)], e[Len(e) - lb]), e[Len(e) - lb]))
        ELSE None

VetoHeld(key, dir) ==
    CASE key = "blocked_by_htf_trend" ->
            \/ dir = 1 /\ HtfTrendOfCall = "down"
            \/ dir = -1 /\ HtfTrendOfCall = "up"
      [] key = "blocked_by_rsi" ->
            /\ LastRsiOfCall # None
            /\ \/ dir = 1 /\ RLe(Get(cfg_filters, "rsi_long_overbought", R(80)), LastRsiOfCall[1])
               \/ dir = -1 /\ RLe(LastRsiOfCall[1], Get(cfg_filters, "rsi_short_oversold", R(20)))
      [] key = "blocked_by_crash" ->
            /\ dir = 1
            /\ detect_crash(closes, Get(cfg_filters, "crash_lookback", 6),
                            Get(cfg_filters, "crash_threshold", Norm(-7, 100)))
      [] key = "blocked_by_breakout" ->
            LET lb == Get(cfg_filters, "breakout_lookback", 5)
                n  == Len(closes)
            IN  /\ lb > 0
                /\ n > lb
                /\ \/ dir = 1 /\ \E i \in (n - lb)..(n - 1) : closes[n] <= closes[i]
                   \/ dir = -1 /\ \E i \in (n - lb)..(n - 1) : closes[n] >= closes[i]
      [] key = "blocked_by_atr" ->
            /\ AtrPctOfCall # None
            /\ RLt(AtrPctOfCall[1], Get(cfg_filters, "atr_min_pct", Norm(2, 1000)))
      [] key = "blocked_by_slope" ->
            /\ SlopeOfCall # None
            /\ \/ RLt(RAbs(SlopeOfCall[1]), Get(cfg_filters, "slope_min_abs", Norm(5, 10000)))
               \/ dir = 1 /\ RLt(SlopeOfCall[1], R(0))
               \/ dir = -1 /\ RLt(R(0), SlopeOfCall[1])

\* the veto reasons recorded so far
Recorded(dbg) == BlockedKeys \cap DOMAIN dbg

\* C8: filter vetoes are monotonic: for every raw_signal in {-1, 0, 1}, every close
\* series, higher-timeframe series and filter configuration, apply_filters returns
\* either 0 or raw_signal; once any of the six stages has set the signal to 0 no
\* later stage changes it back to a direction, and a raw 0 is never turned into a
\* direction.
C8_VetoesMonotonic ==
    /\ [](final_signal \in {0, raw_signal})
    /\ [](stage = 7 => result \in {Some(0), Some(raw_signal)})
    /\ [][final_signal = 0 => final_signal' = 0]_vars

\* a directional signal vetoed by the first stage has gone through the five
\* later stages, one of which met its own veto condition, and 0 was returned
C8_Witness ==
    /\ stage = 7
    /\ raw_signal # 0
    /\ result = Some(0)
    /\ "blocked_by_htf_trend" \in DOMAIN debug_info
    /\ "blocked_by_slope" \in DOMAIN debug_info

\* C9: every veto is recorded: whenever apply_filters is given a directional
\* raw_signal and returns 0, the diagnostic map contains at least one blocked_by_*
\* key naming a filter whose veto condition actually held.
C9_EveryVetoRecorded ==
    (stage = 7 /\ raw_signal # 0 /\ result = Some(0)) =>
        \E key \in Recorded(debug_info) : VetoHeld(key, raw_signal)

\* a long signal vetoed by the crash filter alone
C9_Witness ==
    /\ stage = 7
    /\ raw_signal = 1
    /\ result = Some(0)
    /\ Recorded(debug_info) = {"blocked_by_crash"}

\* C10: once a filter has set the signal to None, later filters' vetoes are
\* no-ops: a stage that runs on an already-None signal neither changes the signal
\* nor records a blocked_by_* veto reason of its own in the diagnostic map.
C10_LaterVetoesAreNoOps ==
    [][ (stage' = stage + 1 /\ stage < 6 /\ final_signal = 0) =>
            /\ final_signal' = 0
            /\ Recorded(debug_info') = Recorded(debug_info)
      ]_vars

----------------------------------------------------------------------------
(* generate_signal: insufficient history *)

\* the usable candles of the call: rows whose close converts (variant A),
\* rows whose open, high, low and close all convert (variant B)
UsableCandles ==
    IF ModeOf(config) = "B" THEN Len(extract_ohlc(klines).closes)
    ELSE Len(extract_closes(klines))

\* max(guard_period, entry_period2) + 5
MinimumB ==
    LET b == Get(Get(config, "logic", <<>>), "B", <<>>)
    IN  Max(Get(b, "guard_ma", 50), Get(b, "entry_ma2", 30)) + 5

\* the call returned 0 without raising
ReturnedNoSignal == signal # None /\ signal[1] = Ret(0)

\* C11 as stated: whenever generate_signal is called with fewer usable candles
\* than slow_period + 2 (variant A) or max(guard_period, entry_period2) + 5
\* (variant B), it returns 0 and does not raise.
C11_InsufficientHistory_Original ==
    (/\ signal # None
     /\ UsableCandles < (IF ModeOf(config) = "B" THEN MinimumB ELSE SlowOf(config) + 2))
        => ReturnedNoSignal

\* C11 amended: whenever generate_signal is called with fewer usable candles
\* than max(10, slow_period + 1) (variant A) or
\* max(guard_period, entry_period2) + 5 (variant B), it returns 0 and does not
\* raise, for every candle list including the empty one.
C11_InsufficientHistory ==
    (/\ signal # None
     /\ UsableCandles < (IF ModeOf(config) = "B" THEN MinimumB
                         ELSE Max(10, SlowOf(config) + 1)))
        => ReturnedNoSignal

\* variant A was called with 10 usable candles and a slow period of 10, one
\* candle short of slow_period + 1, and returned 0
C11_Witness ==
    /\ ReturnedNoSignal
    /\ ModeOf(config) = "A"
    /\ SlowOf(config) = 10
    /\ UsableCandles = 10

----------------------------------------------------------------------------
(* _apply_risk_controls: amounts, batch size, deduplication *)

\* _apply_risk_controls has returned
RiskApplied == pc \in {"place", "done"}

\* the positions of the batch holding the first order of each key
FirstOccurrences(os) ==
    {j \in 1..Len(os) : \A k \in 1..(j - 1) : OrderKey(os[k]) # OrderKey(os[j])}

\* the input order an output order stems from: the first input order with its key
InputOf(o) ==
    all_orders[CHOOSE j \in FirstOccurrences(all_orders) : OrderKey(all_orders[j]) = OrderKey(o)]

\* the i-th smallest element of a set of numbers
IthOf(S, i) == CHOOSE x \in S : Cardinality({y \in S : y < x}) = i - 1

\* C12: the risk control adjuster never increases an order's quantity: every
\* order returned by _apply_risk_controls has an amount less than or equal to
\* the amount the same order had on input, in paper and live, for spot and
\* futures, whether or not a price was available.
C12_NeverIncreases ==
    RiskApplied =>
        \A i \in 1..Len(orders) :
            /\ \E j \in FirstOccurrences(all_orders) : OrderKey(all_orders[j]) = OrderKey(orders[i])
            /\ RLe(orders[i].amount, InputOf(orders[i]).amount)

\* a batch came back with one order scaled down and another, whose price was
\* not available, kept as it was
C12_Witness ==
    /\ RiskApplied
    /\ \E i \in 1..Len(orders) : RLt(orders[i].amount, InputOf(orders[i]).amount)
    /\ \E i \in 1..Len(orders) :
          tickers[orders[i].symbol] = None /\ orders[i].amount = InputOf(orders[i]).amount

\* C13: the number of orders returned by _apply_risk_controls is at most
\* MAX_ORDERS_PER_RUN and at most the number of input orders.
C13_BatchSizeBounded ==
    RiskApplied => (Len(orders) <= MAX_ORDERS_PER_RUN /\ Len(orders) <= Len(all_orders))

\* a batch of more than MAX_ORDERS_PER_RUN orders with distinct keys came back
\* cut to MAX_ORDERS_PER_RUN
C13_Witness ==
    /\ RiskApplied
    /\ Cardinality(FirstOccurrences(all_orders)) > MAX_ORDERS_PER_RUN
    /\ Len(orders) = MAX_ORDERS_PER_RUN

\* C14: the orders returned by _apply_risk_controls are, in input order, the
\* first MAX_ORDERS_PER_RUN orders of the input once every order whose
\* (market, symbol, side, reduce_only) key occurred earlier is removed, so no
\* two returned orders share a key and a duplicate never takes a batch slot.
C14_DedupeThenTruncate ==
    RiskApplied =>
        LET firsts == FirstOccurrences(all_orders)
            n      == IF Cardinality(firsts) > MAX_ORDERS_PER_RUN
                      THEN MAX_ORDERS_PER_RUN ELSE Cardinality(firsts)
        IN  /\ Len(orders) = n
            /\ \A i \in 1..n :
                  LET inp == all_orders[IthOf(firsts, i)]
                  IN  /\ OrderKey(orders[i]) = OrderKey(inp)
                      /\ RLe(orders[i].amount, inp.amount)
                      /\ (tickers[inp.symbol] = None => orders[i] = inp)
            /\ \A i, k \in 1..n : OrderKey(orders[i]) = OrderKey(orders[k]) => i = k

\* a batch with a duplicate among its first MAX_ORDERS_PER_RUN orders and more
\* than MAX_ORDERS_PER_RUN distinct keys came back with MAX_ORDERS_PER_RUN orders
C14_Witness ==
    /\ RiskApplied
    /\ Cardinality(FirstOccurrences(all_orders)) > MAX_ORDERS_PER_RUN
    /\ \E j \in 1..MAX_ORDERS_PER_RUN : j \notin FirstOccurrences(all_orders)
    /\ Len(orders) = MAX_ORDERS_PER_RUN
    /\ \E i \in 1..Len(orders) : orders[i] # all_orders[i]

----------------------------------------------------------------------------
(* _apply_risk_controls and run_once: the live notional cap *)

\* the reference price of an order was available: its ticker, and for a
\* futures order its market entry, could be read
PriceAvailable(o) ==
    tickers[o.symbol] # None /\ (o.market = FUTURES => markets[o.symbol] # None)

\* the contract multiplier of an order: 1 for spot, the contract size (1 when
\* not reported) for futures
Multiplier(o) ==
    IF o.market = SPOT \/ markets[o.symbol][1] = None \/ markets[o.symbol][1] = Some(R(0))
    THEN R(1) ELSE markets[o.symbol][1][1]

\* what one unit of the order is worth: price x contract multiplier
UnitValue(o) == RMul(tickers[o.symbol][1], Multiplier(o))

\* estimated notional: quantity x price x contract multiplier
Notional(o) == RMul(o.amount, UnitValue(o))

AbsoluteCap(o) ==
    IF o.market = SPOT THEN R(MAX_SPOT_NOTIONAL_LIVE) ELSE R(MAX_FUTURES_NOTIONAL_LIVE)

\* min(absolute_cap, equity x risk_per_trade)
EquityCap(o) == RMin(AbsoluteCap(o), RMul(total_usdt, LIVE_RISK_PER_TRADE))

\* min(absolute_cap, equity x risk_per_trade, free_balance)
EquityAndFreeCap(o) == RMin(EquityCap(o), free_usdt)

\* C15 as stated: in the live environment every order leaving the adjuster
\* whose reference price was available has notional at most
\* min(absolute_cap, equity x risk_per_trade, free_balance); an order above
\* that cap is scaled down to it and an order at or below it is unchanged.
C15_LiveNotionalCap_Original ==
    (RiskApplied /\ env = LIVE) =>
        \A i \in 1..Len(orders) :
            LET o   == orders[i]
                inp == InputOf(o)
                cap == EquityAndFreeCap(o)
            IN  PriceAvailable(o) =>
                    /\ RLe(Notional(o), cap)
                    /\ IF RLt(cap, Notional(inp)) THEN Notional(o) = cap ELSE o = inp

\* C15 amended: in the live environment the cap is min(absolute_cap,
\* equity x risk_per_trade); the free balance plays no part in it. For every
\* order leaving the adjuster whose reference price was available: when the
\* cap is positive its notional is at most the cap; an order above a positive
\* cap is scaled down to the cap (a futures order to 100 contracts when that
\* is less); every other order, an order at or below the cap and any order
\* when the cap is <= 0, leaves with its amount unchanged, except that a
\* futures order of more than 100 contracts is cut to 100 contracts.
C15_LiveNotionalCap ==
    (RiskApplied /\ env = LIVE) =>
        \A i \in 1..Len(orders) :
            LET o    == orders[i]
                inp  == InputOf(o)
                cap  == EquityCap(o)
                most == R(MAX_FUTURES_CONTRACTS_PER_ORDER)
            IN  PriceAvailable(o) =>
                    /\ RLt(R(0), cap) => RLe(Notional(o), cap)
                    /\ IF RLt(R(0), cap) /\ RLt(cap, Notional(inp))
                       THEN o.amount = (IF o.market = FUTURES
                                        THEN RMin(RDiv(cap, UnitValue(o)), most)
                                        ELSE RDiv(cap, UnitValue(o)))
                       ELSE o.amount = (IF o.market = FUTURES /\ RLt(most, inp.amount)
                                        THEN most ELSE inp.amount)

\* a live batch with the cap set by the equity fraction (2% of 300 = 6, below
\* the absolute cap) came back with an order scaled down to exactly that cap
C15_Witness ==
    /\ RiskApplied
    /\ env = LIVE
    /\ total_usdt = R(300)
    /\ \E i \in 1..Len(orders) :
          /\ PriceAvailable(orders[i])
          /\ RLt(orders[i].amount, InputOf(orders[i]).amount)
          /\ Notional(orders[i]) = R(6)

\* the cycle has resolved its notional limits
LimitsResolved == pc \in {"close", "open", "risk", "place", "done"} /\ sanity_ok # Some(FALSE)

\* C16: in the live environment, if the notional cap resolves to a value <= 0
\* (e.g. total equity <= 0), the entire batch is rejected: no order of that run
\* cycle is returned by the adjuster or submitted to the exchange.
C16_ZeroCapRejectsBatch ==
    (env = LIVE /\ LimitsResolved
        /\ (RLe(max_spot_notional, R(0)) \/ RLe(max_fut_notional, R(0))))
        => (orders = <<>> /\ placed = <<>>)

C18_LowFreeBalanceOnlyReduces ==
    (env = LIVE /\ LimitsResolved /\ RLt(free_usdt, R(MIN_USDT_FREE_FOR_OPEN))) =>
        /\ open_orders = <<>>
        /\ \A i \in 1..Len(all_orders) : all_orders[i].reduce_only
        /\ \A i \in 1..Len(orders) : orders[i].reduce_only
        /\ \A i \in 1..Len(placed) : placed[i].reduce_only

\* a live cycle that read a free balance of 5 out of a total of 300 ended with
\* its close orders, and nothing else, placed
C18_Witness ==
    /\ env = LIVE
    /\ ~balance_failed
    /\ total_usdt = R(300)
    /\ free_usdt = R(5)
    /\ pc = "done"
    /\ placed # <<>>
    /\ Len(placed) = Len(close_orders)

----------------------------------------------------------------------------
(* Degenerate sizing *)

\* the reference price the sizing call works with: the argument, else the
\* fetched last price; None when get_last_price raised
RefPriceOfCall ==
    IF sizing[1].ref_price = None THEN sizing[1].last ELSE sizing[1].ref_price

\* equity x risk.max_pos, the notional the call plans to use
PlannedNotional ==
    RMul(IF RLe(sizing[1].total_equity, R(0)) THEN R(100) ELSE sizing[1].total_equity,
         sizing[1].max_pos)

\* the contract value the call works with
ContractValueOfCall == IF RLe(sizing[1].ct_val, R(0)) THEN R(1) ELSE sizing[1].ct_val

\* the reference price is missing or <= 0
PriceDegenerate == RefPriceOfCall = None \/ RLe(RefPriceOfCall[1], R(0))

\* the quantity computed from a positive price is 0: the planned notional buys
\* less than one contract
QuantityDegenerate ==
    /\ ~PriceDegenerate
    /\ RLt(PlannedNotional, RMul(ContractValueOfCall, RefPriceOfCall[1]))

\* an order of the batch whose price is missing or <= 0
PriceDegenerateOrder(o) ==
    ~PriceAvailable(o) \/ RLe(tickers[o.symbol][1], R(0))

----------------------------------------------------------------------------
(* Failure isolation *)

\* the symbols whose ticker fetch or market lookup fails
FailingSymbols == {s \in RunSymbols : tickers[s] = None \/ markets[s] = None}

\* the exchange with the lookups of symbol s answering: last price p, contract size cs
TickersWith(s, p) == [tickers EXCEPT ![s] = Some(p)]

MarketsWith(s, cs) == [markets EXCEPT ![s] = Some(cs)]

\* the orders of a batch for symbols other than s
Others(os, s) == SelectSeq(os, LAMBDA o : o.symbol # s)

\* the cycle has generated its close orders
CloseOrdersGenerated == pc \in {"open", "risk", "place", "done"} /\ sanity_ok # Some(FALSE)

\* C20: per-symbol failure isolation: when the ticker or market lookup fails
\* for one symbol, every order and position of the other symbols is processed
\* exactly as it would be had the lookup answered (whatever the answer), in
\* _generate_futures_close_orders and in _apply_risk_controls; and in paper
\* mode the order whose lookup failed is itself kept, unchanged, in the batch
\* returned.
C20_FailureIsolation ==
    \A s \in FailingSymbols :
        /\ CloseOrdersGenerated =>
              \A p \in {R(0), R(4), R(5)} :
                  Others(close_orders, s) =
                      Others(generate_futures_close_orders(fut_positions, TickersWith(s, p)), s)
        /\ (RiskApplied /\ all_orders # <<>>) =>
              /\ \A p \in {R(0), R(4), R(5)}, cs \in {None, Some(R(2))} :
                    Others(orders, s) =
                        Others(apply_risk_controls(all_orders, TickersWith(s, p), MarketsWith(s, cs),
                                                   max_spot_notional, max_fut_notional), s)
              /\ env = TEST =>
                    \A j \in FirstOccurrences(all_orders) :
                        (Cardinality({k \in FirstOccurrences(all_orders) : k < j}) < MAX_ORDERS_PER_RUN
                            /\ all_orders[j].symbol = s) =>
                            \E i \in 1..Len(orders) : orders[i] = all_orders[j]

\* a paper cycle in which the ETH market lookup failed: the ETH order was kept
\* as it was, an order of another symbol was scaled down, and both were placed
C20_Witness ==
    /\ env = TEST
    /\ pc = "done"
    /\ markets[SwapETH] = None
    /\ \E i \in 1..Len(placed) : placed[i].symbol = SwapETH /\ placed[i] = InputOf(placed[i])
    /\ \E i \in 1..Len(placed) :
          placed[i].symbol # SwapETH /\ RLt(placed[i].amount, InputOf(placed[i]).amount)

----------------------------------------------------------------------------
(* apply_filters: the single stages *)

\* the step of apply_filters that runs stage k
StageStep(k) == stage = k - 1 /\ stage' = k

\* the change of the last close against the close lookback bars earlier, as a
\* fraction of the earlier close
PctChange(cl, lookback) ==
    RDiv(RSub(R(cl[Len(cl)]), R(cl[Len(cl) - lookback])), R(cl[Len(cl) - lookback]))

\* the last close lies at or below the crash threshold against the close
\* crash_lookback bars earlier
CrashedOfCall ==
    LET lookback == Get(cfg_filters, "crash_lookback", 6)
    IN  /\ lookback > 0
        /\ Len(closes) >= lookback + 1
        /\ RLe(PctChange(closes, lookback), Get(cfg_filters, "crash_threshold", Norm(-7, 100)))

\* C21: the crash filter is asymmetric: when the percentage change of the last
\* close against the close crash_lookback bars earlier is at or below
\* crash_threshold, a Long signal reaching the crash stage is vetoed, and a Short
\* signal is never vetoed by this stage; in particular for closes
\* [100, 101, 102, 103, 90] with lookback 4 and threshold -0.07 a Long is vetoed
\* and a Short is not.
C21_CrashVetoesLongOnly ==
    [][ StageStep(3) =>
            /\ (final_signal = 1 /\ CrashedOfCall) =>
                   /\ final_signal' = 0
                   /\ "blocked_by_crash" \in DOMAIN debug_info'
            /\ final_signal = -1 =>
                   /\ final_signal' = -1
                   /\ "blocked_by_crash" \notin DOMAIN debug_info'
            /\ (closes = <<100, 101, 102, 103, 90>> /\ cfg_filters = CrashExampleConfig) =>
                   final_signal' = (IF final_signal = 1 THEN 0 ELSE final_signal)
      ]_vars

\* the Long of the example reached the crash stage and was vetoed there
C21_Witness ==
    /\ stage = 3
    /\ closes = <<100, 101, 102, 103, 90>>
    /\ cfg_filters = CrashExampleConfig
    /\ raw_signal = 1
    /\ debug_info["crashed"]
    /\ final_signal = 0
    /\ Recorded(debug_info) = {"blocked_by_crash"}

\* C22: the RSI exhaustion filter: a Long signal reaching the RSI stage is vetoed
\* if and only if the last RSI value is defined and at or above
\* rsi_long_overbought; a Short signal is vetoed if and only if the last RSI value
\* is defined and at or below rsi_short_oversold; when the RSI is not ready
\* (undefined) this stage vetoes nothing.
C22_RsiExhaustion ==
    [][ StageStep(2) =>
            LET overbought == Get(cfg_filters, "rsi_long_overbought", R(80))
                oversold   == Get(cfg_filters, "rsi_short_oversold", R(20))
                vetoed     == final_signal # 0 /\ final_signal' = 0
            IN  /\ final_signal' \in {0, final_signal}
                /\ vetoed <=> "blocked_by_rsi" \in DOMAIN debug_info'
                /\ final_signal = 1 =>
                       (vetoed <=> (LastRsiOfCall # None /\ RLe(overbought, LastRsiOfCall[1])))
                /\ final_signal = -1 =>
                       (vetoed <=> (LastRsiOfCall # None /\ RLe(LastRsiOfCall[1], oversold)))
                /\ LastRsiOfCall = None => ~vetoed
      ]_vars

\* a Short reached the RSI stage with the RSI at or below the oversold level
\* and was vetoed there
C22_Witness ==
    /\ stage = 2
    /\ raw_signal = -1
    /\ final_signal = 0
    /\ debug_info["rsi"] # None
    /\ Recorded(debug_info) = {"blocked_by_rsi"}

\* the closes before the latest one, at most breakout_lookback of them
PriorCloses ==
    LET lb == Get(cfg_filters, "breakout_lookback", 5)
        n  == Len(closes)
    IN  {closes[i] : i \in {j \in 1..(n - 1) : j >= n - lb}}

\* the breakout window is available: the filter is on and there are more than
\* breakout_lookback closes
BreakoutReady ==
    /\ Get(cfg_filters, "breakout_lookback", 5) > 0
    /\ Len(closes) > Get(cfg_filters, "breakout_lookback", 5)

\* C23 as stated: the breakout confirmation filter: a Long signal survives this
\* stage only if the latest close is strictly greater than the maximum of the
\* prior breakout_lookback closes (the window excludes the current bar); a Short
\* signal survives only if the latest close is strictly less than the minimum of
\* that window; otherwise the signal is vetoed.
C23_BreakoutConfirmation_Original ==
    [][ StageStep(4) =>
            /\ final_signal' \in {0, final_signal}
            /\ (final_signal = 1 /\ final_signal' = 1) =>
                   \A x \in PriorCloses : closes[Len(closes)] > x
            /\ (final_signal = -1 /\ final_signal' = -1) =>
                   \A x \in PriorCloses : closes[Len(closes)] < x
      ]_vars

\* C23: the breakout confirmation filter, as the code has it: when
\* breakout_lookback > 0 and there are more than breakout_lookback closes, a Long
\* signal survives this stage exactly when the latest close is strictly greater
\* than the maximum of the prior breakout_lookback closes (the window excludes
\* the current bar), a Short signal exactly when it is strictly less than the
\* minimum of that window, and is vetoed otherwise; when breakout_lookback <= 0
\* or there are at most breakout_lookback closes the stage vetoes nothing.
C23_BreakoutConfirmation ==
    [][ StageStep(4) =>
            LET vetoed == final_signal # 0 /\ final_signal' = 0
            IN  /\ final_signal' \in {0, final_signal}
                /\ vetoed <=> "blocked_by_breakout" \in DOMAIN debug_info'
                /\ (final_signal = 1 /\ BreakoutReady) =>
                       (~vetoed <=> \A x \in PriorCloses : closes[Len(closes)] > x)
                /\ (final_signal = -1 /\ BreakoutReady) =>
                       (~vetoed <=> \A x \in PriorCloses : closes[Len(closes)] < x)
                /\ ~BreakoutReady => ~vetoed
      ]_vars

\* a Long reached the breakout stage with the window available and survived it
C23_Witness ==
    /\ stage = 4
    /\ raw_signal = 1
    /\ final_signal = 1
    /\ BreakoutReady
    /\ debug_info["recent_high"] # None

\* C24: the momentum-slope filter: with the slope of the fast EMA over
\* slope_lookback bars defined, a signal reaching the stage is vetoed when
\* |slope| < slope_min_abs; otherwise a Long is vetoed when the slope is negative
\* and a Short is vetoed when the slope is positive; a signal whose direction
\* agrees with a slope of magnitude at least slope_min_abs passes.
C24_SlopeAgreement ==
    [][ (StageStep(6) /\ final_signal # 0 /\ SlopeOfCall # None) =>
            LET slope   == SlopeOfCall[1]
                flat    == RLt(RAbs(slope), Get(cfg_filters, "slope_min_abs", Norm(5, 10000)))
                against == \/ final_signal = 1 /\ RLt(slope, R(0))
                           \/ final_signal = -1 /\ RLt(R(0), slope)
            IN  /\ (flat \/ against) =>
                       /\ final_signal' = 0
                       /\ "blocked_by_slope" \in DOMAIN debug_info'
                /\ ~(flat \/ against) =>
                       /\ final_signal' = final_signal
                       /\ "blocked_by_slope" \notin DOMAIN debug_info'
      ]_vars

\* a Long reached the slope stage with a rising fast EMA that is not flat, and
\* passed
C24_Witness ==
    /\ stage = 6
    /\ raw_signal = 1
    /\ final_signal = 1
    /\ debug_info["fast_slope"] # None
    /\ RLe(Get(cfg_filters, "slope_min_abs", Norm(5, 10000)), debug_info["fast_slope"][1])

----------------------------------------------------------------------------
(* generate_signal, variant B: the macro trend *)

\* the higher-timeframe closes of the call and the two trend periods
HtfClosesOfCall == extract_closes(htf_klines)

HtfFastOfCall == Get(Get(Get(config, "logic", <<>>), "B", <<>>), "htf_fast", 50)

HtfSlowOfCall == Get(Get(Get(config, "logic", <<>>), "B", <<>>), "htf_slow", 200)

\* the higher-timeframe history is long enough to classify
HtfSufficient == Len(HtfClosesOfCall) >= HtfSlowOfCall + 2

\* bull: price above the fast average above the slow average
HtfBull ==
    /\ HtfSufficient
    /\ RLt(Last(ema(HtfClosesOfCall, HtfSlowOfCall)),
           Last(ema(HtfClosesOfCall, HtfFastOfCall)))
    /\ RLt(Last(ema(HtfClosesOfCall, HtfFastOfCall)),
           R(HtfClosesOfCall[Len(HtfClosesOfCall)]))

\* bear: price below the fast average below the slow average
HtfBear ==
    /\ HtfSufficient
    /\ RLt(Last(ema(HtfClosesOfCall, HtfFastOfCall)),
           Last(ema(HtfClosesOfCall, HtfSlowOfCall)))
    /\ RLt(R(HtfClosesOfCall[Len(HtfClosesOfCall)]),
           Last(ema(HtfClosesOfCall, HtfFastOfCall)))

\* C25: variant B never trades against the macro trend: it returns Long only if
\* the higher-timeframe trend classifier returns bull and Short only if it
\* returns bear; it returns None whenever the trend is none, including when the
\* higher-timeframe data is missing or insufficient.
C25_BFollowsMacroTrend ==
    (ModeOf(config) = "B" /\ signal # None) =>
        /\ signal[1] = Ret(1) => HtfBull
        /\ signal[1] = Ret(-1) => HtfBear
        /\ (~HtfBull /\ ~HtfBear) => signal[1] = Ret(0)
        /\ (htf_klines = <<>> \/ ~HtfSufficient) => signal[1] = Ret(0)

\* variant B returned Long under a bull higher-timeframe trend
C25_Witness ==
    /\ ModeOf(config) = "B"
    /\ signal = Some(Ret(1))
    /\ HtfBull

----------------------------------------------------------------------------
(* rsi *)

\* the arguments and the list returned by the rsi call
RsiSeriesOfCall == rsi_args[1].series

RsiPeriodOfCall == rsi_args[1].period

RsiReturned == rsi_ret[1]

\* the running average loss is 0 at entry i: no close up to the i-th lies
\* below the close before it
NoLossUpTo(i) == \A j \in 2..i : RsiSeriesOfCall[j] >= RsiSeriesOfCall[j - 1]

\* C26: RSI output shape and bounds: rsi(series, period) returns an empty result
\* when len(series) < period + 1 or period <= 0; otherwise a list of the same
\* length as the input whose first period entries are undefined, every defined
\* entry lies in [0, 100], and an entry equals exactly 100 whenever the running
\* average loss is 0.
C26_RsiShape ==
    rsi_ret # None =>
        IF Len(RsiSeriesOfCall) < RsiPeriodOfCall + 1 \/ RsiPeriodOfCall <= 0
        THEN RsiReturned = <<>>
        ELSE /\ Len(RsiReturned) = Len(RsiSeriesOfCall)
             /\ \A i \in 1..RsiPeriodOfCall : RsiReturned[i] = None
             /\ \A i \in (RsiPeriodOfCall + 1)..Len(RsiReturned) :
                   /\ RsiReturned[i] # None
                   /\ RLe(R(0), RsiReturned[i][1])
                   /\ RLe(RsiReturned[i][1], R(100))
                   /\ NoLossUpTo(i) => RsiReturned[i][1] = R(100)

\* rsi returned a list with undefined entries, an entry of exactly 100 after
\* closes that never fell, and a later entry strictly between 0 and 100
C26_Witness ==
    /\ rsi_ret # None
    /\ RsiPeriodOfCall = 2
    /\ Len(RsiReturned) = 4
    /\ RsiReturned[2] = None
    /\ RsiReturned[3] = Some(R(100))
    /\ RLt(R(0), RsiReturned[4][1])
    /\ RLt(RsiReturned[4][1], R(100))

----------------------------------------------------------------------------
(* extract_ohlc *)

\* the rows of the call whose open, high, low and close all convert
ParsableRows ==
    SelectSeq(ohlc_args[1], LAMBDA k : k.o # None /\ k.h # None /\ k.l # None /\ k.c # None)

\* C29: OHLC extraction skips malformed rows without desynchronising the
\* series: when extract_ohlc meets a row that cannot be parsed, the four output
\* lists stay aligned (equal length, with index i of each list taken from the
\* same row).
C29_OhlcAligned ==
    ohlc_ret # None =>
        /\ Len(ohlc_ret[1].opens) = Len(ohlc_ret[1].closes)
        /\ Len(ohlc_ret[1].highs) = Len(ohlc_ret[1].closes)
        /\ Len(ohlc_ret[1].lows) = Len(ohlc_ret[1].closes)
        /\ ohlc_ret[1].opens = FieldOf(ParsableRows, "o")
        /\ ohlc_ret[1].highs = FieldOf(ParsableRows, "h")
        /\ ohlc_ret[1].lows = FieldOf(ParsableRows, "l")
        /\ ohlc_ret[1].closes = FieldOf(ParsableRows, "c")

----------------------------------------------------------------------------
(* Order sizing: the quantity and its floor *)

\* the planned notional over the notional of one contract (price x contract
\* value), or over the contract value alone when the price is missing or <= 0
RawQuantity ==
    IF PriceDegenerate THEN RDiv(PlannedNotional, ContractValueOfCall)
    ELSE RDiv(PlannedNotional, RMul(ContractValueOfCall, RefPriceOfCall[1]))

\* the smallest quantity the sizing ever returns: one contract
MinimumQuantity == R(1)

\* the number of contracts of the order placed
SizedContracts == IntOf(sized[1].sz)

\* C27 as stated: minimum-quantity floor in sizing: the order quantity is
\* target_notional / reference_price (per contract value), and whenever that
\* falls below the minimum order quantity the final quantity is exactly the
\* minimum; the sized quantity is therefore never below the minimum.
C27_MinimumQuantityFloor_Original ==
    (sized # None /\ sized[1].placed /\ ~PriceDegenerate) =>
        R(SizedContracts) =
            (IF RLt(RawQuantity, MinimumQuantity) THEN MinimumQuantity ELSE RawQuantity)

\* C27 amended: the quantity is a whole number of contracts: the planned
\* notional (equity x risk.max_pos) divided by price x contract value, truncated
\* toward zero; whenever that is below 1 the final quantity is exactly 1
\* contract, so the sized quantity is never below one contract (notional 50 at
\* price 25000 with a contract value of 0.01 gives exactly 1 contract, 0.01 of
\* the coin). With the price missing or <= 0 the notional is divided by the
\* contract value alone. The minimum is the fixed one contract, not a value
\* read from the instrument.
C27_MinimumQuantityFloor ==
    (sized # None /\ sized[1].placed) =>
        /\ SizedContracts >= 1
        /\ RLt(RawQuantity, MinimumQuantity) => SizedContracts = 1
        /\ RLe(MinimumQuantity, RawQuantity) =>
               /\ RLe(R(SizedContracts), RawQuantity)
               /\ RLt(RawQuantity, R(SizedContracts + 1))
        /\ (PlannedNotional = R(50) /\ RefPriceOfCall = Some(R(25000))
               /\ ContractValueOfCall = Norm(1, 100)) => SizedContracts = 1

\* the example: notional 50 at price 25000 with a contract value of 0.01 was
\* sized at exactly one contract
C27_Witness ==
    /\ sized # None
    /\ sized[1].placed
    /\ PlannedNotional = R(50)
    /\ RefPriceOfCall = Some(R(25000))
    /\ ContractValueOfCall = Norm(1, 100)
    /\ SizedContracts = 1

----------------------------------------------------------------------------
(* The virtual ledger: fills without a position side *)

\* an on_order_filled call has just been made
JustFilled == Len(fills') = Len(fills) + 1

\* C28: a fill whose order carries no position_side (spot orders, and the
\* reduce-only close orders built by the main loop) leaves the ledger completely
\* unchanged: no position is created, modified or closed and no ClosedTrade is
\* returned or logged, so such close orders never realise PnL in the virtual
\* ledger.
C28_NoSideFillLeavesLedger ==
    [][ (JustFilled /\ fills'[Len(fills')].req.position_side = NoSide) =>
            /\ positions' = positions
            /\ log' = log
            /\ ret' = None
      ]_vars

\* an order without position_side was filled on a symbol that holds a
\* position: the position is still there as it was and nothing was logged
C28_Witness ==
    /\ fills # <<>>
    /\ fills[Len(fills)].req.position_side = NoSide
    /\ current # None
    /\ current[1] \in positions
    /\ \A q \in positions : q.symbol = current[1].symbol => q = current[1]
    /\ ret = None
    /\ log = <<>>

----------------------------------------------------------------------------
(* Close orders *)

\* the rows of fetch_positions that carry a symbol, a size, a side and an
\* entry price, and whose ticker fetch answered
Closable ==
    IF fut_positions = None THEN {}
    ELSE {i \in 1..Len(fut_positions) :
             /\ fut_positions[i].symbol # None
             /\ fut_positions[i].contracts # None
             /\ fut_positions[i].contracts[1] # R(0)
             /\ fut_positions[i].side \in {"long", "buy", "short", "sell"}
             /\ fut_positions[i].entryPrice # None
             /\ RLt(R(0), fut_positions[i].entryPrice[1])
             /\ tickers[fut_positions[i].symbol[1]] # None}

IsLong(pos) == pos.side \in {"long", "buy"}

\* the unrealised return of a position at the last price, signed by its side
PnlPct(pos) ==
    LET moved == RDiv(RSub(tickers[pos.symbol[1]][1], pos.entryPrice[1]), pos.entryPrice[1])
    IN  IF IsLong(pos) THEN moved ELSE RSub(R(0), moved)

\* (tp1, tp2, sl) of a position, from its leverage (3 when none is reported)
Thresholds(pos) ==
    get_tp_sl_for_leverage(IF pos.leverage = None THEN R(3) ELSE pos.leverage[1])

StopLossHit(pos) == RLe(PnlPct(pos), Thresholds(pos)[3])

SecondTierHit(pos) == RLe(Thresholds(pos)[2], PnlPct(pos))

FirstTierHit(pos) == RLe(Thresholds(pos)[1], PnlPct(pos))

\* the close orders generated for the symbol of a position
OrdersFor(pos) == SelectSeq(close_orders, LAMBDA o : o.symbol = pos.symbol[1])

\* C30: every close order produced by _generate_futures_close_orders is
\* reduce_only, is on the side opposite to the position (sell for a long, buy
\* for a short), and has 0 < amount <= |position size|; the stop-loss condition
\* takes precedence over both take-profit tiers, the second take-profit tier
\* closes the full size and the first tier closes half; a position whose PnL is
\* strictly between the stop-loss and first take-profit thresholds produces no
\* order.
C30_CloseOrders ==
    CloseOrdersGenerated =>
        /\ \A k \in 1..Len(close_orders) :
              /\ close_orders[k].reduce_only
              /\ close_orders[k].market = FUTURES
              /\ \E i \in Closable : fut_positions[i].symbol[1] = close_orders[k].symbol
        /\ \A i \in Closable :
              LET pos  == fut_positions[i]
                  size == RAbs(pos.contracts[1])
                  made == OrdersFor(pos)
              IN  IF StopLossHit(pos) \/ FirstTierHit(pos)
                  THEN /\ Len(made) = 1
                       /\ made[1].side = (IF IsLong(pos) THEN SELL ELSE BUY)
                       /\ RLt(R(0), made[1].amount)
                       /\ RLe(made[1].amount, size)
                       /\ made[1].amount =
                              (IF StopLossHit(pos) \/ SecondTierHit(pos) THEN size
                               ELSE RMul(size, Norm(1, 2)))
                  ELSE made = <<>>

\* one cycle produced a full-size close for a short in the second tier and a
\* half-size close for a long in the first tier
C30_Witness ==
    /\ CloseOrdersGenerated
    /\ fut_positions = <<WinningShortBTC, WinningLongETH>>
    /\ close_orders = << Order(FUTURES, SwapBTC, BUY, R(6), TRUE),
                         Order(FUTURES, SwapETH, SELL, R(2), TRUE) >>

====
